---- MODULE Spec2Model ----
(***************************************************************************)
(* The resolver of tracefield-lab: worker processes poll the table         *)
(* resolution_jobs, claim one queued job per iteration inside a database   *)
(* transaction (psycopg2, autocommit off, PostgreSQL READ COMMITTED), run  *)
(* run_resolution on it and commit or roll back.                           *)
(*                                                                         *)
(* The database is modelled as its committed tables plus, per worker, the  *)
(* uncommitted writes of the worker's open transaction.  A statement sees  *)
(* the committed tables and the writes of its own transaction; a row       *)
(* updated by an open transaction is locked by it until commit/rollback.   *)
(*                                                                         *)
(* Text is a sequence of one-character strings, so that strip() and        *)
(* lower() are computed.  A uuid4() value is modelled by the place that    *)
(* drew it: <<job, record index>>.  Similarities are integers, in          *)
(* ten-thousandths.  Of the worker's log, the lines of log.exception are   *)
(* kept.                                                                   *)
(*                                                                         *)
(* The pure helpers of the other workers, the angle, sign, aspect and      *)
(* tally functions of astro_features.py and log_event of provenance.py,    *)
(* are operators; a call of one of them is the variable call, which holds  *)
(* the arguments and, once the helper has been applied, its result.        *)
(*                                                                         *)
(* Three more loops have a variable each, a record of their state: the     *)
(* Kafka consumer of worker_embeddings (consumer), run_forever of the      *)
(* astro worker (astro_loop) and serve of the wake agent (wake_server).    *)
(* Each is followed alone, in a specification of its own.                  *)
(***************************************************************************)
EXTENDS Integers, Sequences, FiniteSets, TLC

VARIABLES resolution_jobs, entities, entity_map, provenance_event,
          tx, pc, local, log, call, consumer, astro_loop, wake_server

vars == <<resolution_jobs, entities, entity_map, provenance_event,
          tx, pc, local, log, call, consumer, astro_loop, wake_server>>

\* the other services: the embeddings consumer, the loop of the astro
\* worker and the wake agent
services == <<consumer, astro_loop, wake_server>>

\* ------------------------------------------------------------------ bounds

NumWorkers == 2

NumJobs == 2

\* how many worker processes die
MaxCrashes == 1

\* how many records the job of a single run has at most
MaxRecords == 3

Workers == 1..NumWorkers

Jobs == 1..NumJobs

\* ------------------------------------------------------------------ text

None == <<>>

Truthy(v) == v # None

lower_char(c) ==
    CASE c = "A" -> "a"
      [] c = "B" -> "b"
      [] c = "H" -> "h"
      [] c = "K" -> "k"
      [] c = "W" -> "w"
      [] c = "X" -> "x"
      [] c = "Z" -> "z"
      [] OTHER -> c

lower(s) == [i \in 1..Len(s) |-> lower_char(s[i])]

RECURSIVE lstrip(_)
lstrip(s) == IF s # <<>> /\ Head(s) = " " THEN lstrip(Tail(s)) ELSE s

RECURSIVE rstrip(_)
rstrip(s) ==
    IF s # <<>> /\ s[Len(s)] = " " THEN rstrip(SubSeq(s, 1, Len(s) - 1)) ELSE s

strip(s) == rstrip(lstrip(s))

\* dict.get(k, default)
Get(d, k, default) == IF k \in DOMAIN d THEN d[k] ELSE default

\* the values of a dict
Values(d) == {d[k] : k \in DOMAIN d}

RECURSIVE _build_text(_, _)
_build_text(keys, fields) ==
    IF fields = <<>> THEN <<>>
    ELSE LET v == Get(keys, Head(fields), None)
             rest == _build_text(keys, Tail(fields))
         IN  IF v # None
             THEN IF rest = <<>> THEN v ELSE v \o <<" ">> \o rest
             ELSE rest

\* ------------------------------------------------------------------ matching

\* resolution.py exact_match: the id of the first entity whose normalized
\* values meet the record's join-key values, None when there is none.
record_vals(record_keys, join_keys) ==
    {strip(Get(record_keys, join_keys[n], <<>>)) : n \in 1..Len(join_keys)} \ {<<>>}

entity_vals(ent) ==
    LET dn == lower(strip(ent.display_name))
        ext == {lower(strip(v)) : v \in {x \in Values(ent.external_ids) : Truthy(x)}}
    IN  IF dn # <<>> THEN ext \cup {dn} ELSE ext

ExactHit(record_keys, ent, join_keys) ==
    \E rv \in record_vals(record_keys, join_keys) : lower(rv) \in entity_vals(ent)

\* exact_match returning the last entity that qualifies, not the first
exact_match_last(record_keys, ents, join_keys) ==
    IF join_keys = <<>> \/ DOMAIN record_keys = {} THEN None
    ELSE LET hits == {n \in 1..Len(ents) : ExactHit(record_keys, ents[n], join_keys)}
         IN  IF hits = {} THEN None
             ELSE ents[CHOOSE n \in hits : \A m \in hits : n >= m].id

exact_match(record_keys, ents, join_keys) ==
    IF join_keys = <<>> \/ DOMAIN record_keys = {} THEN None
    ELSE IF record_vals(record_keys, join_keys) = {} THEN None
    ELSE LET hits == {n \in 1..Len(ents) : ExactHit(record_keys, ents[n], join_keys)}
         IN  IF hits = {} THEN None
             ELSE ents[CHOOSE n \in hits : \A m \in hits : n <= m].id

\* The sentence-transformers model behind embed(): unit vectors, here of
\* length 100 with integer coordinates, so a dot product is a similarity in
\* ten-thousandths.
Encode(t) ==
    CASE t = <<"A", "l">> -> <<100, 0>>
      [] t = <<"a", "l">> -> <<96, 28>>
      [] t = <<"B", "o">> -> <<0, 100>>
      [] t = <<"b", "o">> -> <<28, 96>>
      [] OTHER -> <<-100, 0>>

\* embedding.py embed: every text is stripped, then encoded.
embed(texts) == [n \in 1..Len(texts) |-> Encode(strip(texts[n]))]

Dot(u, v) == u[1] * v[1] + u[2] * v[2]

\* the text semantic_match puts in the place of a blank display name
Placeholder == <<"<", "e", "m", "p", "t", "y", ">">>

\* the candidates semantic_match embeds: a blank display name becomes the
\* placeholder, and the entities whose text is the placeholder are left out
ValidCandidates(ents) ==
    SelectSeq(ents, LAMBDA e :
        (IF strip(e.display_name) # <<>> THEN strip(e.display_name) ELSE Placeholder)
            # Placeholder)

\* semantic_match reaches its embed() call
CallsEmbed(record_text, ents) ==
    record_text # <<>> /\ ents # <<>> /\ ValidCandidates(ents) # <<>>

\* semantic_match with an argmax that returns the last index of the maximum
semantic_match_last(record_text, ents, thr) ==
    IF ~CallsEmbed(record_text, ents) THEN <<None, 0>>
    ELSE LET valid == ValidCandidates(ents)
             vecs == embed(<<record_text>> \o [n \in 1..Len(valid) |-> valid[n].display_name])
             scores == [n \in 1..Len(valid) |-> Dot(vecs[n + 1], vecs[1])]
             best_idx == CHOOSE n \in 1..Len(valid) :
                            /\ \A m \in 1..Len(valid) : scores[m] <= scores[n]
                            /\ \A m \in (n + 1)..Len(valid) : scores[m] < scores[n]
             best_score == scores[best_idx]
         IN  IF best_score >= thr THEN <<valid[best_idx].id, best_score>>
             ELSE <<None, best_score>>

\* resolution.py semantic_match: <<entity id or None, best score>>
semantic_match(record_text, ents, threshold) ==
    IF ~CallsEmbed(record_text, ents) THEN <<None, 0>>
    ELSE LET valid == ValidCandidates(ents)
             vecs == embed(<<record_text>> \o [n \in 1..Len(valid) |-> valid[n].display_name])
             scores == [n \in 1..Len(valid) |-> Dot(vecs[n + 1], vecs[1])]
             \* np.argmax: the first index of the maximum
             best_idx == CHOOSE n \in 1..Len(valid) :
                            /\ \A m \in 1..Len(valid) : scores[m] <= scores[n]
                            /\ \A m \in 1..(n - 1) : scores[m] < scores[n]
             best_score == scores[best_idx]
         IN  IF best_score >= threshold THEN <<valid[best_idx].id, best_score>>
             ELSE <<None, best_score>>

\* ------------------------------------------------------------------ inputs

\* A source record of config_json["records"].  fault is what the environment
\* raises while this record is processed: "embed" makes the embed() call of
\* semantic_match raise, "db" makes the INSERT into entity_map raise.
RecAl == [source_record_id |-> "a", keys |-> [name |-> <<"a", "l">>], fault |-> "none"]

RecBo == [source_record_id |-> "b", keys |-> [name |-> <<"B", "o">>], fault |-> "none"]

RecAnon == [source_record_id |-> "", keys |-> [name |-> <<" ", "A", "l">>], fault |-> "none"]

RecEmbedFail == [source_record_id |-> "c", keys |-> [name |-> <<"b", "o">>], fault |-> "embed"]

RecDbFail == [source_record_id |-> "d", keys |-> [name |-> <<"A", "l">>], fault |-> "db"]

\* What the job submission API stored: the columns dataset_id, entity_type
\* and config_json of a resolution_jobs row.  config_json is the parsed
\* document doc, or a string that json.loads accepts (valid) or rejects.
JobMatch ==
    [dataset_id |-> 1, entity_type |-> "person",
     config_json |-> [is_str |-> FALSE, valid |-> TRUE,
        doc |-> [records |-> <<RecAl, RecBo>>, joinKeys |-> <<"name">>,
                 createIfNoMatch |-> TRUE]]]

JobSemantic ==
    [dataset_id |-> 1, entity_type |-> "person",
     config_json |-> [is_str |-> TRUE, valid |-> TRUE,
        doc |-> [records |-> <<RecAnon>>, semanticFields |-> <<"name">>,
                 threshold |-> 9600]]]

JobOrg ==
    [dataset_id |-> 1, entity_type |-> "org",
     config_json |-> [is_str |-> FALSE, valid |-> TRUE,
        doc |-> [records |-> <<RecAl>>, joinKeys |-> <<"name">>,
                 createIfNoMatch |-> FALSE]]]

JobBadConfig ==
    [dataset_id |-> 2, entity_type |-> "person",
     config_json |-> [is_str |-> TRUE, valid |-> FALSE, doc |-> << >>]]

JobEmpty ==
    [dataset_id |-> 2, entity_type |-> "person",
     config_json |-> [is_str |-> FALSE, valid |-> TRUE, doc |-> [records |-> << >>]]]

\* a config_json without the key "records"
JobNoRecords ==
    [dataset_id |-> 1, entity_type |-> "person",
     config_json |-> [is_str |-> TRUE, valid |-> TRUE,
        doc |-> [joinKeys |-> <<"name">>, createIfNoMatch |-> TRUE]]]

JobEmbedFail ==
    [dataset_id |-> 2, entity_type |-> "person",
     config_json |-> [is_str |-> FALSE, valid |-> TRUE,
        doc |-> [records |-> <<RecBo, RecEmbedFail>>, createIfNoMatch |-> TRUE]]]

JobDbFail ==
    [dataset_id |-> 1, entity_type |-> "person",
     config_json |-> [is_str |-> FALSE, valid |-> TRUE,
        doc |-> [records |-> <<RecBo, RecDbFail>>, joinKeys |-> <<"name">>,
                 createIfNoMatch |-> TRUE]]]

\* a second record with the name of RecBo
RecNamesake == [source_record_id |-> "f", keys |-> [name |-> <<"b", "o">>], fault |-> "none"]

\* two submissions of one batch, the records in either order
JobNamesakes ==
    [dataset_id |-> 2, entity_type |-> "person",
     config_json |-> [is_str |-> FALSE, valid |-> TRUE,
        doc |-> [records |-> <<RecBo, RecNamesake>>, joinKeys |-> <<"name">>,
                 createIfNoMatch |-> TRUE]]]

JobNamesakesReversed ==
    [dataset_id |-> 2, entity_type |-> "person",
     config_json |-> [is_str |-> FALSE, valid |-> TRUE,
        doc |-> [records |-> <<RecNamesake, RecBo>>, joinKeys |-> <<"name">>,
                 createIfNoMatch |-> TRUE]]]

\* the queues of submitted jobs, oldest first
JobQueues ==
    {<<JobMatch, JobMatch>>, <<JobMatch, JobOrg>>, <<JobEmbedFail, JobSemantic>>,
     <<JobDbFail, JobOrg>>, <<JobDbFail, JobBadConfig>>, <<JobEmpty, JobBadConfig>>,
     <<JobNoRecords, JobEmpty>>, <<JobNamesakes, JobNamesakesReversed>>}

\* the entity registered before any job runs
SeedEntities ==
    {[id |-> <<0, 1>>, entity_type |-> "person", display_name |-> <<"A", "l">>,
      external_ids |-> << >>]}

\* Inputs of a single run: more records, entities and options.
RecBoTwin == [source_record_id |-> "e", keys |-> [name |-> <<"B", "o">>], fault |-> "none"]

RecCoded ==
    [source_record_id |-> "f", keys |-> [name |-> <<"B", "o">>, code |-> <<"A", "l">>],
     fault |-> "none"]

RecBio1 == [source_record_id |-> "p", keys |-> [bio |-> <<"B", "o">>], fault |-> "none"]

RecBio2 == [source_record_id |-> "q", keys |-> [bio |-> <<"B", "o">>], fault |-> "none"]

\* a second record with the source_record_id of RecAl
RecDup == [source_record_id |-> "a", keys |-> [name |-> <<"B", "o">>], fault |-> "none"]

RecordPool ==
    <<RecAl, RecBo, RecAnon, RecBoTwin, RecCoded, RecBio1, RecBio2, RecDup>>

\* config_json["records"]: the lists of at most MaxRecords records of the pool
RecordLists ==
    {SelectSeq(RecordPool, LAMBDA r : r \in C) :
        C \in {D \in SUBSET {RecordPool[n] : n \in DOMAIN RecordPool} :
                  Cardinality(D) \in 1..MaxRecords}}

\* the options of config_json; a threshold may be absent, or be given as 0
OptionDocs ==
    {[joinKeys |-> jk, semanticFields |-> << >>, createIfNoMatch |-> c] :
        jk \in {<< >>, <<"name">>, <<"code">>}, c \in BOOLEAN}
    \cup
    {[joinKeys |-> << >>, semanticFields |-> <<"bio">>, createIfNoMatch |-> c] :
        c \in BOOLEAN}
    \cup
    {[joinKeys |-> << >>, semanticFields |-> << >>, createIfNoMatch |-> FALSE,
      threshold |-> t] : t \in {0, 9600, 9601}}
    \cup
    {[joinKeys |-> <<"name">>, semanticFields |-> << >>, createIfNoMatch |-> TRUE,
      threshold |-> 9601]}
    \cup
    {[joinKeys |-> <<"name">>, semanticFields |-> << >>]}

\* the job of a single run
JobOf(recs, opts) ==
    [dataset_id |-> 1, entity_type |-> "person",
     config_json |-> [is_str |-> FALSE, valid |-> TRUE,
                      doc |-> [k \in DOMAIN opts \cup {"records"} |->
                                 IF k = "records" THEN recs ELSE opts[k]]]]

\* an entity known by a padded name and by a code
EBo ==
    [id |-> <<0, 2>>, entity_type |-> "person",
     display_name |-> <<" ", "b", "o", " ">>, external_ids |-> [code |-> <<"A", "l">>]]

\* an entity with a blank name, known by a code only
EBlank ==
    [id |-> <<0, 3>>, entity_type |-> "person",
     display_name |-> <<" ">>, external_ids |-> [code |-> <<"B", "o">>]]

\* the entities registered before a single run
SeedSets == {{}, SeedEntities, SeedEntities \cup {EBo}, {EBo, EBlank}}

\* ------------------------------------------------------------------ database

NULL == << >>

\* a tally that does not start at zero
OneUnmatched == [exact |-> 0, semantic |-> 0, created |-> 0, unmatched |-> 1]

ZeroCounts == [exact |-> 0, semantic |-> 0, created |-> 0, unmatched |-> 0]

\* a transaction that is not open
NoTx ==
    [open |-> FALSE, aborted |-> FALSE, resolution_jobs |-> << >>,
     entities |-> {}, entity_map |-> {}, provenance_event |-> {}]

\* the locals of run_worker and run_resolution before a job is fetched
NoLocal ==
    [job |-> 0, entities |-> << >>, existing |-> << >>, counts |-> ZeroCounts,
     i |-> 0, e |-> ""]

\* The job rows a transaction has updated and not yet committed are locked
\* by it (row locks of UPDATE, held to the end of the transaction).
Holds(w, j) == j \in DOMAIN tx[w].resolution_jobs

Locked(j) == \E w \in Workers : Holds(w, j)

\* the newest version of a job row: the holder's uncommitted one, if any
RowVersion(j) ==
    IF Locked(j)
    THEN tx[CHOOSE w \in Workers : Holds(w, j)].resolution_jobs[j]
    ELSE resolution_jobs[j]

\* what a statement of w's transaction sees of a table (READ COMMITTED)
VisibleEntities(w) == entities \cup tx[w].entities

VisibleEntityMap(w) == entity_map \cup tx[w].entity_map

Terminal == {"completed", "failed"}

\* the connection left in autocommit mode: every statement commits alone
autocommit_on == TRUE

\* db_connection: conn.autocommit = False, so the statements of one
\* iteration of run_worker form one transaction
autocommit == FALSE

\* the version of a job row a statement of w's transaction sees and updates
JobRow(w, j) == IF Holds(w, j) THEN tx[w].resolution_jobs[j] ELSE resolution_jobs[j]

\* what COMMIT of the writes t makes of the tables
CommitJobs(t) ==
    [j \in Jobs |-> IF j \in DOMAIN t.resolution_jobs
                    THEN t.resolution_jobs[j] ELSE resolution_jobs[j]]

CommitEntities(t) == entities \cup t.entities

CommitEntityMap(t) == entity_map \cup t.entity_map

CommitProvenance(t) == provenance_event \cup t.provenance_event

\* A statement of worker w leaves the writes t: they stay in w's open
\* transaction, or are committed at once when the connection autocommits.
Write(w, t) ==
    IF autocommit
    THEN /\ resolution_jobs' = CommitJobs(t)
         /\ entities' = CommitEntities(t)
         /\ entity_map' = CommitEntityMap(t)
         /\ provenance_event' = CommitProvenance(t)
         /\ tx' = [tx EXCEPT ![w] = [NoTx EXCEPT !.open = TRUE]]
    ELSE /\ tx' = [tx EXCEPT ![w] = t]
         /\ UNCHANGED <<resolution_jobs, entities, entity_map, provenance_event>>

\* ------------------------------------------------------------------ options

DefaultThreshold == 8500

\* run_resolution's reading of config_json (resolution.py 230-234)
Config(j) == resolution_jobs[j].config_json.doc

records(config) == Get(config, "records", << >>)

join_keys(config) == Get(config, "joinKeys", << >>)

semantic_fields(config) ==
    LET v == Get(config, "semanticFields", << >>)
    IN  IF v # << >> THEN v ELSE <<"name">>

threshold(config) ==
    LET v == Get(config, "threshold", 0)
    IN  IF v # 0 THEN v ELSE DefaultThreshold

\* a reading of createIfNoMatch that creates unless the option says no
create_unless_disabled(config) == Get(config, "createIfNoMatch", TRUE)

create_if_no_match(config) == Get(config, "createIfNoMatch", FALSE)

\* str(uuid.uuid4()) drawn for record i of job j
GenSrid(j, i) == "uuid-" \o ToString(j) \o "-" \o ToString(i)

\* rec.get("source_record_id") or str(uuid.uuid4())
SourceRecordId(j, i) ==
    LET given == records(Config(j))[i].source_record_id
    IN  IF given # "" THEN given ELSE GenSrid(j, i)

\* all orders in which a SELECT without ORDER BY may return the rows S
Orders(S) ==
    {q \in [1..Cardinality(S) -> S] : \A x \in S : \E n \in DOMAIN q : q[n] = x}

\* ------------------------------------------------------------------ claiming

\* the inner SELECT without FOR UPDATE SKIP LOCKED: rows locked by another
\* claimant are not skipped
ClaimableIgnoringLocks(j) == resolution_jobs[j].status = "queued"

\* main.py fetch_queued_job, the inner SELECT: a committed queued row that no
\* other transaction has locked (FOR UPDATE SKIP LOCKED)
Claimable(j) == resolution_jobs[j].status = "queued" /\ ~Locked(j)

\* the inner SELECT without ORDER BY created_at: any claimable row
fetch_any_queued == {j \in Jobs : Claimable(j)}

\* ORDER BY created_at LIMIT 1 over the claimable rows; {} when there is none
fetch_queued_job ==
    {j \in Jobs : /\ Claimable(j)
                  /\ \A k \in Jobs : Claimable(k) =>
                        resolution_jobs[j].created_at <= resolution_jobs[k].created_at}

\* log.exception("Error processing job %s", job["id"]): the lines of the
\* worker log that name a job, by kind
Say(j, line) == [log EXCEPT ![j] = @ \cup {line}]

\* run_worker: db_connection() opens a transaction, fetch_queued_job claims
\* a job: the row is updated (and locked) in the worker's transaction.
FetchJob(w) ==
    /\ pc[w] = "poll"
    /\ \E j \in fetch_queued_job :
        /\ Write(w, [NoTx EXCEPT !.open = TRUE,
                                 !.resolution_jobs =
                                    j :> [resolution_jobs[j] EXCEPT
                                            !.status = "running",
                                            !.started_at = <<"NOW">>]])
        /\ local' = [local EXCEPT ![w] = [NoLocal EXCEPT !.job = j]]
    /\ pc' = [pc EXCEPT ![w] = "process_job"]
    /\ UNCHANGED log
    /\ UNCHANGED <<call, services>>

\* run_worker: no job was returned; the with-block ends and commits nothing
FetchNone(w) ==
    /\ pc[w] = "poll"
    /\ fetch_queued_job = {}
    /\ pc' = [pc EXCEPT ![w] = "sleep"]
    /\ local' = [local EXCEPT ![w] = NoLocal]
    /\ UNCHANGED <<resolution_jobs, entities, entity_map, provenance_event, tx, log>>
    /\ UNCHANGED <<call, services>>

\* complete_job without result_summary = %s in its SET list
complete_job_without_summary(w, j, result_summary) ==
    [tx[w] EXCEPT !.resolution_jobs =
        j :> [JobRow(w, j) EXCEPT !.status = "completed", !.ended_at = <<"NOW">>]]

\* main.py complete_job: UPDATE ... SET status = 'completed'
complete_job(w, j, result_summary) ==
    [tx[w] EXCEPT !.resolution_jobs =
        j :> [JobRow(w, j) EXCEPT !.status = "completed", !.ended_at = <<"NOW">>,
                                  !.result_summary = <<result_summary>>]]

\* fail_job without exc_info = %s in its SET list
fail_job_without_text(w, j, exc_info) ==
    [tx[w] EXCEPT !.resolution_jobs =
        j :> [JobRow(w, j) EXCEPT !.status = "failed", !.ended_at = <<"NOW">>]]

\* fail_job issued after a rollback of the iteration's transaction: only the
\* failed status is left to commit
fail_job_after_rollback(w, j, exc_info) ==
    [NoTx EXCEPT !.open = TRUE, !.resolution_jobs =
        j :> [JobRow(w, j) EXCEPT !.status = "failed", !.ended_at = <<"NOW">>,
                                  !.exc_info = <<exc_info>>]]

\* main.py fail_job: UPDATE ... SET status = 'failed'
fail_job(w, j, exc_info) ==
    [tx[w] EXCEPT !.resolution_jobs =
        j :> [JobRow(w, j) EXCEPT !.status = "failed", !.ended_at = <<"NOW">>,
                                  !.exc_info = <<exc_info>>]]

\* process_job up to the first statement of run_resolution: the config is
\* parsed (json.loads raises on an invalid string), a job without records
\* returns the zero tally at once and is completed.
ProcessJob(w) ==
    /\ pc[w] = "process_job"
    /\ LET j == local[w].job
           cj == resolution_jobs[j].config_json
       IN  IF cj.is_str /\ ~cj.valid
           THEN /\ local' = [local EXCEPT ![w].e = "JSONDecodeError"]
                /\ pc' = [pc EXCEPT ![w] = "except"]
                /\ UNCHANGED log
                /\ UNCHANGED <<tx, resolution_jobs, entities, entity_map,
                               provenance_event>>
           ELSE IF records(cj.doc) = << >>
           THEN /\ Write(w, complete_job(w, j, ZeroCounts))
                /\ pc' = [pc EXCEPT ![w] = "commit"]
                /\ UNCHANGED log
                /\ local' = local
           ELSE /\ pc' = [pc EXCEPT ![w] = "load_entities"]
                /\ UNCHANGED log
                /\ UNCHANGED <<tx, local, resolution_jobs, entities, entity_map,
                               provenance_event>>
    /\ UNCHANGED <<call, services>>

\* ------------------------------------------------------------------ resolution

\* load_entities without its WHERE entity_type = %s
load_entities_any_type(w, entity_type) ==
    Orders({[id |-> e.id, display_name |-> e.display_name,
             external_ids |-> e.external_ids] : e \in VisibleEntities(w)})

\* resolution.py load_entities: the visible entities of the type, as dicts
\* {id, display_name, external_ids}, in the order the SELECT returns them
load_entities(w, entity_type) ==
    Orders({[id |-> e.id, display_name |-> e.display_name,
             external_ids |-> e.external_ids] :
              e \in {x \in VisibleEntities(w) : x.entity_type = entity_type}})

LoadEntities(w) ==
    /\ pc[w] = "load_entities"
    /\ \E q \in load_entities(w, resolution_jobs[local[w].job].entity_type) :
          local' = [local EXCEPT ![w].entities = q]
    /\ pc' = [pc EXCEPT ![w] = "load_existing"]
    /\ UNCHANGED <<resolution_jobs, entities, entity_map, provenance_event, tx, log>>
    /\ UNCHANGED <<call, services>>

\* resolution.py load_existing_mappings: source_record_id -> entity_id over
\* the visible rows of the dataset; of several rows with one
\* source_record_id the dict keeps whichever the SELECT returned last
load_existing_mappings(w, dataset_id) ==
    LET rows == {r \in VisibleEntityMap(w) :
                    r.dataset_id = dataset_id /\ r.source_record_id # ""}
        ids == {r.source_record_id : r \in rows}
    IN  {f \in [ids -> {r.entity_id : r \in rows}] :
            \A k \in ids : \E r \in rows :
                r.source_record_id = k /\ r.entity_id = f[k]}

LoadExisting(w) ==
    /\ pc[w] = "load_existing"
    /\ \E f \in load_existing_mappings(w, resolution_jobs[local[w].job].dataset_id) :
          local' = [local EXCEPT ![w].existing = f, ![w].i = 1]
    /\ pc' = [pc EXCEPT ![w] = "records"]
    /\ UNCHANGED <<resolution_jobs, entities, entity_map, provenance_event, tx, log>>
    /\ UNCHANGED <<call, services>>

\* the loop without its check of the existing mappings
NeverAlreadyMapped(source_record_id, existing) == FALSE

\* the check of the loop head: `if source_record_id in existing: continue`
AlreadyMapped(source_record_id, existing) == source_record_id \in DOMAIN existing

\* a plain INSERT, without the WHERE NOT EXISTS condition
upsert_unconditional(w, row) == {row}

\* a statement that never inserts
upsert_nothing(w, row) == {}

\* resolution.py upsert_entity_map_insert_only: the rows the statement
\* INSERT ... SELECT ... WHERE NOT EXISTS (...) adds, given what it sees
upsert_entity_map_insert_only(w, row) ==
    IF \E r \in VisibleEntityMap(w) :
           r.dataset_id = row.dataset_id /\ r.source_record_id = row.source_record_id
    THEN {}
    ELSE {row}

\* a tally that counts the method whether or not the row was inserted
count_attempted(counts, method, inserted) == [counts EXCEPT ![method] = @ + 1]

\* `if inserted: counts[method] = counts.get(method, 0) + 1`
count_inserted(counts, method, inserted) ==
    IF inserted # {} THEN [counts EXCEPT ![method] = @ + 1] ELSE counts

\* the loop body trying the semantic step before the exact step
MatchSemanticFirst(j, i, ents) ==
    LET config == Config(j)
        rec == records(config)[i]
        keys == rec.keys
        exact == IF join_keys(config) # << >>
                 THEN exact_match(keys, ents, join_keys(config)) ELSE None
        text == _build_text(keys, semantic_fields(config))
        sem == semantic_match(text, ents, threshold(config))
    IN  IF text # << >> /\ sem[1] # None
        THEN [raises |-> FALSE, entity_id |-> sem[1], method |-> "semantic",
              score |-> sem[2], create |-> FALSE]
        ELSE IF exact # None
        THEN [raises |-> FALSE, entity_id |-> exact, method |-> "exact",
              score |-> 10000, create |-> FALSE]
        ELSE IF create_if_no_match(config)
        THEN [raises |-> FALSE, entity_id |-> <<j, i>>, method |-> "created",
              score |-> 10000, create |-> TRUE]
        ELSE [raises |-> FALSE, entity_id |-> None, method |-> "", score |-> 0,
              create |-> FALSE]

\* The matching steps of the loop body for record i of job j against the
\* candidate list ents: [raises, entity_id, method, score, create].
Match(j, i, ents) ==
    LET config == Config(j)
        rec == records(config)[i]
        keys == rec.keys
        exact == IF join_keys(config) # << >>
                 THEN exact_match(keys, ents, join_keys(config)) ELSE None
        text == _build_text(keys, semantic_fields(config))
        sem == semantic_match(text, ents, threshold(config))
    IN  IF exact # None
        THEN [raises |-> FALSE, entity_id |-> exact, method |-> "exact",
              score |-> 10000, create |-> FALSE]
        ELSE IF text # << >> /\ CallsEmbed(text, ents) /\ rec.fault = "embed"
        THEN [raises |-> TRUE, entity_id |-> None, method |-> "", score |-> 0,
              create |-> FALSE]
        ELSE IF text # << >> /\ sem[1] # None
        THEN [raises |-> FALSE, entity_id |-> sem[1], method |-> "semantic",
              score |-> sem[2], create |-> FALSE]
        ELSE IF create_if_no_match(config)
        THEN [raises |-> FALSE, entity_id |-> <<j, i>>, method |-> "created",
              score |-> 10000, create |-> TRUE]
        ELSE [raises |-> FALSE, entity_id |-> None, method |-> "", score |-> 0,
              create |-> FALSE]

\* keys.get("name") or keys.get("display_name") or source_record_id
DisplayNameFor(keys, source_record_id) ==
    IF Get(keys, "name", None) # None THEN keys.name
    ELSE IF Get(keys, "display_name", None) # None THEN keys.display_name
    ELSE <<source_record_id>>

\* One pass of the loop `for rec in records` of run_resolution.
ResolveRecord(w) ==
    /\ pc[w] = "records"
    /\ local[w].i <= Len(records(Config(local[w].job)))
    /\ LET j == local[w].job
           i == local[w].i
           job == resolution_jobs[j]
           rec == records(Config(j))[i]
           source_record_id == SourceRecordId(j, i)
           m == Match(j, i, local[w].entities)
           display_name == DisplayNameFor(rec.keys, source_record_id)
           created == IF m.create
                      THEN {[id |-> m.entity_id, entity_type |-> job.entity_type,
                             display_name |-> display_name,
                             external_ids |-> rec.keys]}
                      ELSE {}
           row == [id |-> <<j, i>>, dataset_id |-> job.dataset_id,
                   entity_id |-> m.entity_id,
                   source_record_id |-> source_record_id,
                   source_keys |-> rec.keys, method |-> m.method,
                   score |-> m.score]
           inserted == upsert_entity_map_insert_only(w, row)
       IN  IF AlreadyMapped(source_record_id, local[w].existing)
           THEN /\ local' = [local EXCEPT ![w].i = i + 1]
                /\ UNCHANGED <<tx, pc, resolution_jobs, entities, entity_map,
                               provenance_event>>
           ELSE IF m.raises
           THEN /\ local' = [local EXCEPT ![w].e = "EmbeddingError"]
                /\ pc' = [pc EXCEPT ![w] = "except"]
                /\ UNCHANGED <<tx, resolution_jobs, entities, entity_map,
                               provenance_event>>
           ELSE IF m.entity_id = None
           THEN /\ local' = [local EXCEPT ![w].i = i + 1,
                                          ![w].counts.unmatched = @ + 1]
                /\ UNCHANGED <<tx, pc, resolution_jobs, entities, entity_map,
                               provenance_event>>
           ELSE IF rec.fault = "db"
           THEN \* the INSERT raises: the transaction is aborted
                /\ Write(w, [tx[w] EXCEPT !.aborted = TRUE,
                                          !.entities = @ \cup created])
                /\ local' = [local EXCEPT ![w].e = "DatabaseError"]
                /\ pc' = [pc EXCEPT ![w] = "except"]
           ELSE /\ Write(w, [tx[w] EXCEPT !.entities = @ \cup created,
                                          !.entity_map = @ \cup inserted])
                /\ local' = [local EXCEPT
                     ![w].i = i + 1,
                     ![w].entities =
                        IF m.create
                        THEN Append(@, [id |-> m.entity_id,
                                        display_name |-> display_name,
                                        external_ids |-> << >>])
                        ELSE @,
                     ![w].counts = count_inserted(@, m.method, inserted)]
                /\ pc' = pc
    /\ UNCHANGED log
    /\ UNCHANGED <<call, services>>

\* hashlib.sha256(json.dumps(config, sort_keys=True)): a digest of the
\* document, whatever the order of its keys
_config_hash(config) == <<"sha256", config>>

ModelName == "BAAI/bge-small-en-v1.5"

\* resolution.py log_provenance: the row it inserts
log_provenance(job_id, dataset_id, config_hash, model, counts) ==
    [job_id |-> job_id, dataset_id |-> dataset_id, stage |-> "resolution",
     detail |-> [config_hash |-> config_hash, model |-> model,
                 exact |-> counts.exact, semantic |-> counts.semantic,
                 created |-> counts.created, unmatched |-> counts.unmatched]]

\* The end of run_resolution and of process_job: the provenance event is
\* written, the tally returned and complete_job called with it.
FinishJob(w) ==
    /\ pc[w] = "records"
    /\ local[w].i > Len(records(Config(local[w].job)))
    /\ LET j == local[w].job
           ev == log_provenance(j, resolution_jobs[j].dataset_id,
                                _config_hash(Config(j)), ModelName, local[w].counts)
       IN  /\ Write(w, [complete_job(w, j, local[w].counts) EXCEPT
                            !.provenance_event = @ \cup {ev}])
           /\ UNCHANGED log
    /\ pc' = [pc EXCEPT ![w] = "commit"]
    /\ UNCHANGED local
    /\ UNCHANGED <<call, services>>

\* run_worker's handler `except Exception as e` around process_job, when the
\* UPDATE of fail_job is executed: the failure joins the transaction.
FailJob(w) ==
    /\ pc[w] = "except"
    /\ ~tx[w].aborted
    /\ Write(w, fail_job(w, local[w].job, local[w].e))
    /\ log' = Say(local[w].job, "Error processing")
    /\ pc' = [pc EXCEPT ![w] = "commit"]
    /\ UNCHANGED local
    /\ UNCHANGED <<call, services>>

\* The same handler after a database error: the transaction is aborted, so
\* the UPDATE of fail_job raises in its turn; db_connection rolls back and
\* re-raises, the outer handler of run_worker logs and goes on to sleep.
FailJobRaises(w) ==
    /\ pc[w] = "except"
    /\ tx[w].aborted
    /\ tx' = [tx EXCEPT ![w] = NoTx]
    /\ log' = Say(local[w].job, "Error processing")
    /\ pc' = [pc EXCEPT ![w] = "sleep"]
    /\ local' = [local EXCEPT ![w] = NoLocal]
    /\ UNCHANGED <<resolution_jobs, entities, entity_map, provenance_event>>
    /\ UNCHANGED <<call, services>>

\* conn.commit() at the end of db_connection
Commit(w) ==
    /\ pc[w] = "commit"
    /\ resolution_jobs' = CommitJobs(tx[w])
    /\ entities' = CommitEntities(tx[w])
    /\ entity_map' = CommitEntityMap(tx[w])
    /\ provenance_event' = CommitProvenance(tx[w])
    /\ tx' = [tx EXCEPT ![w] = NoTx]
    /\ pc' = [pc EXCEPT ![w] = "sleep"]
    /\ local' = [local EXCEPT ![w] = NoLocal]
    /\ UNCHANGED log
    /\ UNCHANGED <<call, services>>

\* time.sleep(POLL_INTERVAL_SEC), then the next iteration
Sleep(w) ==
    /\ pc[w] = "sleep"
    /\ pc' = [pc EXCEPT ![w] = "poll"]
    /\ UNCHANGED <<resolution_jobs, entities, entity_map, provenance_event, tx, local, log>>
    /\ UNCHANGED <<call, services>>

InTransaction ==
    {"process_job", "load_entities", "load_existing", "records", "except", "commit"}

\* The worker process dies with its transaction open: the server rolls the
\* transaction back and releases its locks.  local keeps the job the dead
\* process was working on (the job named by the last lines of its log).
Crash(w) ==
    /\ pc[w] \in InTransaction
    /\ Cardinality({v \in Workers : pc[v] = "crashed"}) < MaxCrashes
    /\ tx' = [tx EXCEPT ![w] = NoTx]
    /\ pc' = [pc EXCEPT ![w] = "crashed"]
    /\ local' = [local EXCEPT ![w] = [NoLocal EXCEPT !.job = local[w].job]]
    /\ UNCHANGED <<resolution_jobs, entities, entity_map, provenance_event, log>>
    /\ UNCHANGED <<call, services>>

\* ------------------------------------------------------------------ system

\* no helper function has been called
NoCall == [kind |-> "none", fn |-> "none", args |-> << >>, out |-> << >>]

\* worker_embeddings: no connection scope is open
NoScope ==
    [open |-> FALSE, aborted |-> FALSE, job_status |-> << >>,
     embeddings_1024 |-> {}, provenance_event |-> {}]

\* the embeddings consumer before it has subscribed, on an empty topic
NoConsumer ==
    [topic |-> << >>, position |-> 1, committed |-> 1, pc |-> "poll", msg |-> 0,
     job_status |-> << >>, embeddings_1024 |-> {}, provenance_event |-> {},
     tx |-> NoScope, e |-> "", log |-> {}, restarts |-> 0]

\* the astro worker before run_forever is entered
NoLoop ==
    [idle_sleep |-> 0, max_idle_sleep |-> 0, sleep_seconds |-> 0, pc |-> "off",
     wrote |-> 0, slept |-> << >>]

\* the wake agent before serve is entered
NoServer ==
    [WAKE_KEY |-> << >>, mac_bytes |-> << >>, now |-> 0, last_wake_ts |-> 0,
     packets |-> << >>, req |-> 0, status |-> 0, raised |-> "off", sent |-> FALSE]

ServicesIdle ==
    /\ consumer = NoConsumer
    /\ astro_loop = NoLoop
    /\ wake_server = NoServer

\* the row the job submission API inserts for a job
NewJob(j, input) ==
    [id |-> j, created_at |-> j, dataset_id |-> input.dataset_id,
     entity_type |-> input.entity_type, config_json |-> input.config_json,
     status |-> "queued", started_at |-> NULL, ended_at |-> NULL,
     result_summary |-> NULL, exc_info |-> NULL]

Init ==
    /\ \E q \in JobQueues :
          resolution_jobs = [j \in Jobs |-> NewJob(j, q[((j - 1) % Len(q)) + 1])]
    /\ entities = SeedEntities
    /\ entity_map = {}
    /\ provenance_event = {}
    /\ tx = [w \in Workers |-> NoTx]
    /\ pc = [w \in Workers |-> "poll"]
    /\ local = [w \in Workers |-> NoLocal]
    /\ log = [j \in Jobs |-> {}]
    /\ call = NoCall
    /\ ServicesIdle

Step(w) ==
    \/ FetchJob(w)
    \/ FetchNone(w)
    \/ ProcessJob(w)
    \/ LoadEntities(w)
    \/ LoadExisting(w)
    \/ ResolveRecord(w)
    \/ FinishJob(w)
    \/ FailJob(w)
    \/ FailJobRaises(w)
    \/ Commit(w)
    \/ Sleep(w)

Next == \E w \in Workers : Step(w) \/ Crash(w)

Spec == Init /\ [][Next]_vars

\* The workers alone, none of them dying: every worker process keeps
\* running its loop (each is a process of its own, scheduled by the OS).
NextLive == \E w \in Workers : Step(w)

\* the queues whose oldest job has a record on which the database raises
LiveInit == Init /\ resolution_jobs[1] = NewJob(1, JobDbFail)

LiveSpec == LiveInit /\ [][NextLive]_vars /\ \A w \in Workers : WF_vars(Step(w))

\* One run of run_resolution alone: worker 1 executes the oldest job from
\* its claim to its commit, no other transaction is open, no mapping exists
\* and nothing raises.
SoloInit ==
    /\ \E recs \in RecordLists : \E opts \in OptionDocs :
          resolution_jobs = [j \in Jobs |-> NewJob(j, IF j = 1 THEN JobOf(recs, opts)
                                                               ELSE JobEmpty)]
    /\ entities \in SeedSets
    /\ entity_map = {}
    /\ provenance_event = {}
    /\ tx = [w \in Workers |-> NoTx]
    /\ pc = [w \in Workers |-> "poll"]
    /\ local = [w \in Workers |-> NoLocal]
    /\ log = [j \in Jobs |-> {}]
    /\ call = NoCall
    /\ ServicesIdle

SoloNext ==
    \/ FetchJob(1)
    \/ ProcessJob(1)
    \/ LoadEntities(1)
    \/ LoadExisting(1)
    \/ ResolveRecord(1)
    \/ FinishJob(1)
    \/ Commit(1)

SoloSpec == SoloInit /\ [][SoloNext]_vars

\* ------------------------------------------------- astrological features

\* Angles are whole degrees.  A ratio that the code rounds to n decimals is
\* an integer count of units of 10^-n.

\* the longitudes the angle helpers are called with: -MaxDegree..MaxDegree
MaxDegree == 400

\* how many bodies a map of longitudes has at most
MaxBodies == 3

Abs(x) == IF x < 0 THEN 0 - x ELSE x

Min(x, y) == IF x <= y THEN x ELSE y

\* round(p / q, n) for p >= 0 and q > 0, where scale = 10^n: the nearest
\* multiple of 10^-n, the even one of two equally near (Python's round)
Round(p, q, scale) ==
    LET f == (p * scale) \div q
        r == (p * scale) % q
    IN  IF 2 * r < q THEN f
        ELSE IF 2 * r > q THEN f + 1
        ELSE IF f % 2 = 0 THEN f ELSE f + 1

\* astro_features.py ASPECTS, in the order of the dict
ASPECTS ==
    <<[name |-> "conjunction", angle |-> 0],
      [name |-> "opposition", angle |-> 180],
      [name |-> "trine", angle |-> 120],
      [name |-> "square", angle |-> 90],
      [name |-> "sextile", angle |-> 60]>>

Luminary == [conjunction |-> 10, opposition |-> 10, trine |-> 8, square |-> 8, sextile |-> 6]

Personal == [conjunction |-> 7, opposition |-> 7, trine |-> 6, square |-> 6, sextile |-> 4]

Social == [conjunction |-> 8, opposition |-> 8, trine |-> 7, square |-> 7, sextile |-> 5]

Outer == [conjunction |-> 6, opposition |-> 6, trine |-> 5, square |-> 5, sextile |-> 4]

\* astro_features.py ASPECT_ORBS
ASPECT_ORBS ==
    [sun |-> Luminary, moon |-> Luminary,
     mercury |-> Personal, venus |-> Personal, mars |-> Personal,
     jupiter |-> Social, saturn |-> Social,
     uranus |-> Outer, neptune |-> Outer, pluto |-> Outer]

SIGNS ==
    <<"aries", "taurus", "gemini", "cancer", "leo", "virgo",
      "libra", "scorpio", "sagittarius", "capricorn", "aquarius", "pisces">>

SIGN_ELEMENTS ==
    [aries |-> "fire", leo |-> "fire", sagittarius |-> "fire",
     taurus |-> "earth", virgo |-> "earth", capricorn |-> "earth",
     gemini |-> "air", libra |-> "air", aquarius |-> "air",
     cancer |-> "water", scorpio |-> "water", pisces |-> "water"]

SIGN_MODALITIES ==
    [aries |-> "cardinal", cancer |-> "cardinal", libra |-> "cardinal",
     capricorn |-> "cardinal",
     taurus |-> "fixed", leo |-> "fixed", scorpio |-> "fixed", aquarius |-> "fixed",
     gemini |-> "mutable", virgo |-> "mutable", sagittarius |-> "mutable",
     pisces |-> "mutable"]

\* a remainder with the sign of the dividend (math.fmod)
wrap360_fmod(x) == IF x >= 0 THEN x % 360 ELSE 0 - ((0 - x) % 360)

\* x % 360.0: Python's remainder has the sign of the divisor
wrap360(x) == x % 360

\* the smallest angular distance of two longitudes, in 0..180
ang_distance(a, b) ==
    LET d == Abs(wrap360(a) - wrap360(b))
    IN  IF d <= 180 THEN d ELSE 360 - d

\* degrees into the sign taken from the longitude as given, not wrapped
sign_from_longitude_unwrapped(lon) ==
    LET idx == wrap360(lon) \div 30
    IN  <<SIGNS[idx + 1], lon - idx * 30>>

\* <<sign name, degrees into the sign>>; SIGNS[idx] raises IndexError for
\* an index past the list
sign_from_longitude(lon) ==
    LET l == wrap360(lon)
        idx == l \div 30
        deg_in_sign == l - idx * 30
    IN  IF idx < Len(SIGNS) THEN <<SIGNS[idx + 1], deg_in_sign>>
        ELSE <<"IndexError", deg_in_sign>>

\* ASPECT_ORBS.get(body, {}).get(asp_name, 5)
BodyOrb(body, asp_name) ==
    IF body \in DOMAIN ASPECT_ORBS THEN ASPECT_ORBS[body][asp_name] ELSE 5

\* the looser of the two orbs
PairOrbLooser(a, b, asp_name) ==
    IF BodyOrb(a, asp_name) >= BodyOrb(b, asp_name) THEN BodyOrb(a, asp_name)
    ELSE BodyOrb(b, asp_name)

\* orb = min(orb_a, orb_b)
PairOrb(a, b, asp_name) == Min(BodyOrb(a, asp_name), BodyOrb(b, asp_name))

\* The loop over ASPECTS.items() from its n-th item on, for the pair (a, b)
\* at distance d: best is << >> (None) or <<(asp_name, asp_angle, orb, dev)>>.
RECURSIVE BestAspect(_, _, _, _, _, _)
BestAspect(a, b, d, n, best, best_dev) ==
    IF n > Len(ASPECTS) THEN best
    ELSE LET asp == ASPECTS[n]
             dev == Abs(d - asp.angle)
             orb == PairOrb(a, b, asp.name)
         IN  IF dev <= orb /\ dev < best_dev
             THEN BestAspect(a, b, d, n + 1,
                             <<[name |-> asp.name, angle |-> asp.angle,
                                orb |-> orb, dev |-> dev]>>, dev)
             ELSE BestAspect(a, b, d, n + 1, best, best_dev)

\* round(max(0.0, min(1.0, (orb - dev) / orb)), 4), in ten-thousandths
Strength(orb, dev) ==
    IF orb > 0
    THEN IF orb - dev < 0 THEN 0
         ELSE IF orb - dev > orb THEN 10000
         ELSE Round(orb - dev, orb, 10000)
    ELSE 0

\* the pairs (i, j), i < j, of 1..n in the order of the two nested loops
IndexPairs(n) ==
    SelectSeq([k \in 1..(n * n) |-> <<((k - 1) \div n) + 1, ((k - 1) % n) + 1>>],
              LAMBDA p : p[1] < p[2])

\* longs is the dict as the sequence of its items [name, lon], in key order
compute_aspects(longs) ==
    LET found(p) == BestAspect(longs[p[1]].name, longs[p[2]].name,
                               ang_distance(longs[p[1]].lon, longs[p[2]].lon),
                               1, << >>, 999)
        hits == SelectSeq(IndexPairs(Len(longs)), LAMBDA p : found(p) # << >>)
    IN  [n \in 1..Len(hits) |->
            LET p == hits[n]
                best == found(p)[1]
            IN  [a |-> longs[p[1]].name, b |-> longs[p[2]].name,
                 aspect |-> best.name,
                 angle |-> ang_distance(longs[p[1]].lon, longs[p[2]].lon),
                 deviation |-> best.dev,
                 strength |-> Strength(best.orb, best.dev)]]

\* <<element ratios, modality ratios>>, in millionths
elem_modality_tallies(longs) ==
    LET sign(n) == sign_from_longitude(longs[n].lon)[1]
        elems == [e \in {"fire", "earth", "air", "water"} |->
                    Cardinality({n \in DOMAIN longs : SIGN_ELEMENTS[sign(n)] = e})]
        mods == [m \in {"cardinal", "fixed", "mutable"} |->
                    Cardinality({n \in DOMAIN longs : SIGN_MODALITIES[sign(n)] = m})]
        sum_e == elems["fire"] + elems["earth"] + elems["air"] + elems["water"]
        sum_m == mods["cardinal"] + mods["fixed"] + mods["mutable"]
        \* sum(...) or 1.0
        se == IF sum_e # 0 THEN sum_e ELSE 1
        sm == IF sum_m # 0 THEN sum_m ELSE 1
    IN  <<[e \in DOMAIN elems |-> Round(elems[e], se, 1000000)],
          [m \in DOMAIN mods |-> Round(mods[m], sm, 1000000)]>>

\* ------------------------------------------------- provenance of a worker

\* An optional argument is << >> (None) or <<value>>; a dict is the set of
\* its items <<key, value>>.

\* the keys of detail when every optional argument is tested for truth
DetailKeysTruthy(count, duration_ms, error, meta) ==
    {"status"}
        \cup (IF count # None /\ count # <<0>> THEN {"count"} ELSE {})
        \cup (IF duration_ms # None /\ duration_ms # <<0>> THEN {"duration_ms"} ELSE {})
        \cup (IF error # None /\ error # <<"">> THEN {"error"} ELSE {})
        \cup (IF meta # None /\ meta # <<{}>> THEN {"meta"} ELSE {})

\* the keys log_event puts in detail: `is not None` for count, duration_ms
\* and error, `if meta:` for meta
DetailKeys(count, duration_ms, error, meta) ==
    {"status"}
        \cup (IF count # None THEN {"count"} ELSE {})
        \cup (IF duration_ms # None THEN {"duration_ms"} ELSE {})
        \cup (IF error # None THEN {"error"} ELSE {})
        \cup (IF meta # None /\ meta # <<{}>> THEN {"meta"} ELSE {})

\* provenance.py log_event: the calls of cur.execute it makes, each with
\* its query and its parameters (person_id, stage, Json(detail))
log_event(stage, status, count, duration_ms, error, meta, person_id) ==
    LET detail == [k \in DetailKeys(count, duration_ms, error, meta) |->
                     CASE k = "status" -> status
                       [] k = "count" -> count[1]
                       [] k = "duration_ms" -> duration_ms[1]
                       [] k = "error" -> error[1]
                       [] k = "meta" -> meta[1]]
    IN  <<[query |-> [verb |-> "INSERT", table |-> "provenance_event",
                      columns |-> <<"person_id", "stage", "detail">>],
           params |-> <<person_id, stage, detail>>]>>

\* ------------------------------------------------- calls of the helpers

\* the resolver at rest, while a helper is called
Idle ==
    /\ resolution_jobs = [j \in Jobs |-> NewJob(j, JobEmpty)]
    /\ entities = {}
    /\ entity_map = {}
    /\ provenance_event = {}
    /\ tx = [w \in Workers |-> NoTx]
    /\ pc = [w \in Workers |-> "poll"]
    /\ local = [w \in Workers |-> NoLocal]
    /\ log = [j \in Jobs |-> {}]

resolver == <<resolution_jobs, entities, entity_map, provenance_event,
              tx, pc, local, log>>

\* second arguments of ang_distance
OtherAngles == {-370, -180, -10, 0, 10, 170, 180, 190, 350, 370}

\* the bodies of a map of longitudes; chiron has no entry in ASPECT_ORBS
BodyPool == <<"sun", "mars", "pluto", "chiron">>

LongitudePool == {-90, 0, 5, 7, 8, 30, 64, 90, 125, 180, 355, 725}

\* the n-th smallest element of the set of numbers C
Nth(C, n) == CHOOSE i \in C : Cardinality({m \in C : m < i}) = n - 1

\* the sets of at most MaxBodies bodies of the pool, as places in the pool
BodySets == {D \in SUBSET DOMAIN BodyPool : Cardinality(D) <= MaxBodies}

\* the map that gives the bodies C the longitudes f, in the order of the pool
ChartOf(C, f) ==
    [n \in 1..Cardinality(C) |-> [name |-> BodyPool[Nth(C, n)], lon |-> f[Nth(C, n)]]]

AstroInit ==
    /\ Idle
    /\ ServicesIdle
    /\ \/ \E a \in (0 - MaxDegree)..MaxDegree : \E b \in OtherAngles :
             call = [kind |-> "angles", fn |-> "none", args |-> <<a, b>>, out |-> << >>]
       \/ \E C \in BodySets : \E f \in [C -> LongitudePool] :
             call = [kind |-> "chart", fn |-> "none", args |-> ChartOf(C, f),
                     out |-> << >>]

CallWrap360 ==
    /\ call.kind = "angles" /\ call.fn = "none"
    /\ call' = [call EXCEPT !.fn = "wrap360", !.out = wrap360(call.args[1])]
    /\ UNCHANGED <<resolver, services>>

CallAngDistance ==
    /\ call.kind = "angles" /\ call.fn = "none"
    /\ call' = [call EXCEPT !.fn = "ang_distance",
                            !.out = ang_distance(call.args[1], call.args[2])]
    /\ UNCHANGED <<resolver, services>>

CallSignFromLongitude ==
    /\ call.kind = "angles" /\ call.fn = "none"
    /\ call' = [call EXCEPT !.fn = "sign_from_longitude",
                            !.out = sign_from_longitude(call.args[1])]
    /\ UNCHANGED <<resolver, services>>

CallElemModalityTallies ==
    /\ call.kind = "chart" /\ call.fn = "none"
    /\ call' = [call EXCEPT !.fn = "elem_modality_tallies",
                            !.out = elem_modality_tallies(call.args)]
    /\ UNCHANGED <<resolver, services>>

CallComputeAspects ==
    /\ call.kind = "chart" /\ call.fn = "none"
    /\ call' = [call EXCEPT !.fn = "compute_aspects",
                            !.out = compute_aspects(call.args)]
    /\ UNCHANGED <<resolver, services>>

AstroNext ==
    \/ CallWrap360
    \/ CallAngDistance
    \/ CallSignFromLongitude
    \/ CallElemModalityTallies
    \/ CallComputeAspects

AstroSpec == AstroInit /\ [][AstroNext]_vars

\* the arguments log_event is called with
EventArgs ==
    [stage : {"embed", "fetch"}, status : {"ok", "error"},
     count : {None, <<0>>, <<3>>}, duration_ms : {None, <<0>>, <<12>>},
     error : {None, <<"">>, <<"boom">>},
     meta : {None, <<{}>>, <<{<<"model", "bge">>}>>},
     person_id : {None, <<"p1">>}]

EventInit ==
    /\ Idle
    /\ ServicesIdle
    /\ \E args \in EventArgs :
          call = [kind |-> "event", fn |-> "none", args |-> args, out |-> << >>]

CallLogEvent ==
    /\ call.kind = "event" /\ call.fn = "none"
    /\ call' = [call EXCEPT !.fn = "log_event",
                            !.out = log_event(call.args.stage, call.args.status,
                                              call.args.count, call.args.duration_ms,
                                              call.args.error, call.args.meta,
                                              call.args.person_id)]
    /\ UNCHANGED <<resolver, services>>

EventNext == CallLogEvent

EventSpec == EventInit /\ [][EventNext]_vars

\* ------------------------------------------------------ embeddings consumer

\* worker_embeddings/main.py: one consumer of one partition of the topic.
\* A message is known by its offset, which is also the id of its job.  The
\* database is the committed tables job_status, embeddings_1024 and
\* provenance_event plus the writes of the open connection scope.

\* how many messages the partition holds
MaxMessages == 3

\* how often the consumer process is restarted
MaxRestarts == 1

\* What a message makes of the consumer: a job of function
\* embeddings.extract whose run succeeds, raises a ValueError before it
\* writes, or raises a database error at its first INSERT; a job of another
\* function; an empty payload; a payload json.loads rejects.
MessageKinds == {"extract", "extract_value_error", "extract_db_error",
                 "other_function", "empty", "bad_json"}

ExtractKinds == {"extract", "extract_value_error", "extract_db_error"}

Topics == UNION {[1..n -> MessageKinds] : n \in 1..MaxMessages}

\* the job_status row the API inserted when it produced the message
QueuedStatus ==
    [status |-> "QUEUED", started_at |-> NULL, ended_at |-> NULL,
     result |-> NULL, exc_info |-> NULL]

\* the version of a job_status row the open scope sees
StatusRow(c, job_id) ==
    IF job_id \in DOMAIN c.tx.job_status THEN c.tx.job_status[job_id]
    ELSE c.job_status[job_id]

\* main.py update_job_status: UPDATE job_status SET status, started_at,
\* ended_at, result, exc_info WHERE id = job_id, in the open scope
update_job_status(c, job_id, status, result, exc_info) ==
    [c.tx EXCEPT !.open = TRUE, !.job_status =
        [o \in DOMAIN c.tx.job_status \cup {job_id} |->
            IF o = job_id
            THEN [status |-> status,
                  started_at |-> IF status = "STARTED" THEN <<"now_ms">>
                                 ELSE StatusRow(c, job_id).started_at,
                  ended_at |-> IF status \in {"FINISHED", "FAILED"} THEN <<"now_ms">>
                               ELSE StatusRow(c, job_id).ended_at,
                  result |-> result, exc_info |-> exc_info]
            ELSE c.tx.job_status[o]]]

\* the with-block of db_connection left by an exception: conn.rollback()
scope_rollback(c) ==
    [c EXCEPT !.tx = NoScope]

\* db_connection left without an exception: conn.commit()
scope_commit(c) ==
    [c EXCEPT !.job_status = [o \in DOMAIN c.job_status |->
                                 IF o \in DOMAIN c.tx.job_status
                                 THEN c.tx.job_status[o] ELSE c.job_status[o]],
              !.embeddings_1024 = @ \cup c.tx.embeddings_1024,
              !.provenance_event = @ \cup c.tx.provenance_event,
              !.tx = NoScope]

\* consumer.commit(message=msg): the committed offset of the partition
\* becomes the offset after msg
commit_message(c) == c.msg + 1

\* run_consumer: msg = consumer.poll(); an empty payload is passed over, a
\* payload that is not JSON raises into the outer handler, anything else is
\* handed to process_job.
ConsumerPoll ==
    /\ consumer.pc = "poll"
    /\ consumer.position <= Len(consumer.topic)
    /\ LET kind == consumer.topic[consumer.position]
           c == [consumer EXCEPT !.msg = consumer.position, !.position = @ + 1,
                                 !.e = ""]
       IN  consumer' =
             IF kind = "empty" THEN c
             ELSE IF kind = "bad_json"
             THEN [c EXCEPT !.pc = "sleep", !.log = @ \cup {<<"Consumer error", c.msg>>}]
             ELSE [c EXCEPT !.pc = "process_job"]
    /\ UNCHANGED <<resolver, call, astro_loop, wake_server>>

\* process_job up to the try: a job of another function returns at once;
\* otherwise the scope opens and the status is set to STARTED
EmbeddingsProcessJob ==
    /\ consumer.pc = "process_job"
    /\ consumer' =
         IF consumer.topic[consumer.msg] \notin ExtractKinds
         THEN [consumer EXCEPT !.pc = "commit_offset"]
         ELSE [consumer EXCEPT
                 !.tx = update_job_status(consumer, consumer.msg, "STARTED", NULL, NULL),
                 !.pc = "run_embeddings_extract"]
    /\ UNCHANGED <<resolver, call, astro_loop, wake_server>>

\* the try of process_job: run_embeddings_extract, then FINISHED; or the
\* handler, which sets FAILED and re-raises.  After a database error the
\* UPDATE of the handler raises too and the scope is left by that error.
RunEmbeddingsExtract ==
    /\ consumer.pc = "run_embeddings_extract"
    /\ LET kind == consumer.topic[consumer.msg]
           done == [consumer EXCEPT
                      !.tx.embeddings_1024 = @ \cup {consumer.msg},
                      !.tx.provenance_event = @ \cup {consumer.msg}]
       IN  consumer' =
             IF kind = "extract"
             THEN [done EXCEPT
                     !.tx = update_job_status(done, consumer.msg, "FINISHED",
                                              <<"ok">>, NULL),
                     !.pc = "scope_exit"]
             ELSE IF kind = "extract_value_error"
             THEN [consumer EXCEPT
                     !.tx = update_job_status(consumer, consumer.msg, "FAILED",
                                              NULL, <<"ValueError">>),
                     !.e = "ValueError",
                     !.log = @ \cup {<<"Embeddings job failed", consumer.msg>>},
                     !.pc = "scope_exit"]
             ELSE [consumer EXCEPT
                     !.tx.aborted = TRUE,
                     !.e = "InFailedSqlTransaction",
                     !.log = @ \cup {<<"Embeddings job failed", consumer.msg>>},
                     !.pc = "scope_exit"]
    /\ UNCHANGED <<resolver, call, astro_loop, wake_server>>

\* the end of the with-block: commit, or rollback and the exception goes on
\* to run_consumer, which logs it and does not commit the offset
ScopeExit ==
    /\ consumer.pc = "scope_exit"
    /\ consumer' =
         IF consumer.e = ""
         THEN [scope_commit(consumer) EXCEPT !.pc = "commit_offset"]
         ELSE [scope_rollback(consumer) EXCEPT
                 !.log = @ \cup {<<"not committing offset", consumer.msg>>},
                 !.pc = "poll"]
    /\ UNCHANGED <<resolver, call, astro_loop, wake_server>>

\* consumer.commit(message=msg)
CommitOffset ==
    /\ consumer.pc = "commit_offset"
    /\ consumer' = [consumer EXCEPT !.committed = commit_message(consumer),
                                    !.pc = "poll"]
    /\ UNCHANGED <<resolver, call, astro_loop, wake_server>>

\* time.sleep(5) of the outer handler
ConsumerSleep ==
    /\ consumer.pc = "sleep"
    /\ consumer' = [consumer EXCEPT !.pc = "poll"]
    /\ UNCHANGED <<resolver, call, astro_loop, wake_server>>

\* The process is stopped and started again: an open scope is rolled back
\* by the server, the consumer resumes at the committed offset of its group.
ConsumerRestart ==
    /\ consumer.restarts < MaxRestarts
    /\ consumer' = [consumer EXCEPT !.tx = NoScope, !.e = "", !.msg = 0,
                                    !.position = consumer.committed,
                                    !.pc = "poll", !.restarts = @ + 1]
    /\ UNCHANGED <<resolver, call, astro_loop, wake_server>>

ConsumerInit ==
    /\ Idle
    /\ call = NoCall
    /\ astro_loop = NoLoop
    /\ wake_server = NoServer
    /\ \E topic \in Topics :
          consumer = [NoConsumer EXCEPT
                        !.topic = topic,
                        !.job_status = [o \in DOMAIN topic |-> QueuedStatus]]

ConsumerNext ==
    \/ ConsumerPoll
    \/ EmbeddingsProcessJob
    \/ RunEmbeddingsExtract
    \/ ScopeExit
    \/ CommitOffset
    \/ ConsumerSleep
    \/ ConsumerRestart

ConsumerSpec == ConsumerInit /\ [][ConsumerNext]_vars

\* ------------------------------------------------------- astro worker loop

\* astro_features.py run_forever.  Durations are whole seconds; doubling and
\* min are exact on the floats the settings are read into.

\* the largest ASTRO_MAX_IDLE_SLEEP_SECONDS tried
MaxIdleSeconds == 40

\* how many idle cycles in a row are followed
MaxIdleCycles == 6

\* how many rows one call of run writes at most
MaxWrote == 2

\* ASTRO_IDLE_SLEEP_SECONDS, default 2
IdleSleeps == {0, 1, 2, 3, 45}

\* ASTRO_MAX_IDLE_SLEEP_SECONDS, default 30
MaxIdleSleeps == {1, 7, 30, MaxIdleSeconds}

\* doubling without the cap
next_sleep_uncapped(sleep_seconds, max_idle_sleep) == sleep_seconds * 2

\* sleep_seconds = min(sleep_seconds * 2, max_idle_sleep)
next_sleep(sleep_seconds, max_idle_sleep) == Min(sleep_seconds * 2, max_idle_sleep)

\* wrote = run(batch_size); a cycle that wrote rows resets the sleep and
\* goes on to the next cycle at once
RunBatch ==
    /\ astro_loop.pc = "run"
    /\ \E wrote \in 0..MaxWrote :
          astro_loop' =
            IF wrote > 0
            THEN [astro_loop EXCEPT !.wrote = wrote, !.slept = << >>,
                                    !.sleep_seconds = astro_loop.idle_sleep]
            ELSE [astro_loop EXCEPT !.wrote = 0, !.pc = "sleep"]
    /\ UNCHANGED <<resolver, call, consumer, wake_server>>

\* time.sleep(sleep_seconds), then the next sleep is computed; slept is the
\* durations slept since the last cycle that wrote rows
IdleSleep ==
    /\ astro_loop.pc = "sleep"
    /\ Len(astro_loop.slept) < MaxIdleCycles
    /\ astro_loop' =
         [astro_loop EXCEPT
            !.slept = Append(@, astro_loop.sleep_seconds),
            !.sleep_seconds = next_sleep(astro_loop.sleep_seconds,
                                         astro_loop.max_idle_sleep),
            !.pc = "run"]
    /\ UNCHANGED <<resolver, call, consumer, wake_server>>

LoopInit ==
    /\ Idle
    /\ call = NoCall
    /\ consumer = NoConsumer
    /\ wake_server = NoServer
    /\ \E idle_sleep \in IdleSleeps : \E max_idle_sleep \in MaxIdleSleeps :
          astro_loop = [idle_sleep |-> idle_sleep, max_idle_sleep |-> max_idle_sleep,
                        sleep_seconds |-> idle_sleep, pc |-> "run", wrote |-> 0,
                        slept |-> << >>]

LoopNext == RunBatch \/ IdleSleep

LoopSpec == LoopInit /\ [][LoopNext]_vars

\* --------------------------------------------------------------- wake agent

\* wake-up-agent/main.py serve: one request is handled at a time, from
\* accept to close.  now is time.time() in whole seconds.

COOLDOWN_SECONDS == 60

\* how far the clock is followed
MaxClock == 125

\* the moments at which requests arrive: around the start, one cooldown
\* later and two cooldowns later
ArrivalTimes ==
    {0, 1, COOLDOWN_SECONDS - 1, COOLDOWN_SECONDS, COOLDOWN_SECONDS + 1,
     2 * COOLDOWN_SECONDS - 1, 2 * COOLDOWN_SECONDS, 2 * COOLDOWN_SECONDS + 1, MaxClock}

\* The requests tried, each as the lines between \r\n, a line as its
\* characters:
\*    1  no bytes: (empty)
\*    2  a request line of one word: GET
\*    3  POST with the right key: POST /wake HTTP/1.1 | x-wake-key: key
\*    4  the method in lower case: get /wake HTTP/1.1 | x-wake-key: key
\*    5  another route: GET /status HTTP/1.1 | x-wake-key: key
\*    6  a route that only starts with /wake: GET /wake/ HTTP/1.1 | x-wake-key: key
\*    7  no header: GET /wake HTTP/1.1
\*    8  a header of blanks: GET /wake HTTP/1.1 | x-wake-key:  
\*    9  a wrong key: GET /wake HTTP/1.1 | x-wake-key: bad
\*   10  the key: GET /wake HTTP/1.1 | x-wake-key: key
\*   11  a query, a line without colon, the header name in capitals, the value padded: GET /wake?x=1 HTTP/1.1 | Host h | X-Wake-Key:  key 
\*   12  the key after the blank line that ends the headers: GET /wake HTTP/1.1 |  | x-wake-key: key
\*   13  a wrong key before the right one: GET /wake HTTP/1.1 | x-wake-key: bad | x-wake-key: key
Requests ==
    <<<< >>,
     <<<<"G", "E", "T">>>>,
     <<<<"P", "O", "S", "T", " ", "/", "w", "a", "k", "e", " ", "H", "T", "T", "P", "/", "1", ".", "1">>,
      <<"x", "-", "w", "a", "k", "e", "-", "k", "e", "y", ":", " ", "k", "e", "y">>>>,
     <<<<"g", "e", "t", " ", "/", "w", "a", "k", "e", " ", "H", "T", "T", "P", "/", "1", ".", "1">>,
      <<"x", "-", "w", "a", "k", "e", "-", "k", "e", "y", ":", " ", "k", "e", "y">>>>,
     <<<<"G", "E", "T", " ", "/", "s", "t", "a", "t", "u", "s", " ", "H", "T", "T", "P", "/", "1", ".", "1">>,
      <<"x", "-", "w", "a", "k", "e", "-", "k", "e", "y", ":", " ", "k", "e", "y">>>>,
     <<<<"G", "E", "T", " ", "/", "w", "a", "k", "e", "/", " ", "H", "T", "T", "P", "/", "1", ".", "1">>,
      <<"x", "-", "w", "a", "k", "e", "-", "k", "e", "y", ":", " ", "k", "e", "y">>>>,
     <<<<"G", "E", "T", " ", "/", "w", "a", "k", "e", " ", "H", "T", "T", "P", "/", "1", ".", "1">>>>,
     <<<<"G", "E", "T", " ", "/", "w", "a", "k", "e", " ", "H", "T", "T", "P", "/", "1", ".", "1">>,
      <<"x", "-", "w", "a", "k", "e", "-", "k", "e", "y", ":", " ", " ">>>>,
     <<<<"G", "E", "T", " ", "/", "w", "a", "k", "e", " ", "H", "T", "T", "P", "/", "1", ".", "1">>,
      <<"x", "-", "w", "a", "k", "e", "-", "k", "e", "y", ":", " ", "b", "a", "d">>>>,
     <<<<"G", "E", "T", " ", "/", "w", "a", "k", "e", " ", "H", "T", "T", "P", "/", "1", ".", "1">>,
      <<"x", "-", "w", "a", "k", "e", "-", "k", "e", "y", ":", " ", "k", "e", "y">>>>,
     <<<<"G", "E", "T", " ", "/", "w", "a", "k", "e", "?", "x", "=", "1", " ", "H", "T", "T", "P", "/", "1", ".", "1">>,
      <<"H", "o", "s", "t", " ", "h">>,
      <<"X", "-", "W", "a", "k", "e", "-", "K", "e", "y", ":", " ", " ", "k", "e", "y", " ">>>>,
     <<<<"G", "E", "T", " ", "/", "w", "a", "k", "e", " ", "H", "T", "T", "P", "/", "1", ".", "1">>,
      << >>,
      <<"x", "-", "w", "a", "k", "e", "-", "k", "e", "y", ":", " ", "k", "e", "y">>>>,
     <<<<"G", "E", "T", " ", "/", "w", "a", "k", "e", " ", "H", "T", "T", "P", "/", "1", ".", "1">>,
      <<"x", "-", "w", "a", "k", "e", "-", "k", "e", "y", ":", " ", "b", "a", "d">>,
      <<"x", "-", "w", "a", "k", "e", "-", "k", "e", "y", ":", " ", "k", "e", "y">>>>>>

\* WAKE_KEY as deployed: left empty, or a secret
WakeKeys == {<< >>, <<"k", "e", "y">>}

\* parse_mac(TARGET_MAC_STR): the six bytes, or None when it raised
MacBytes == {None, <<16, 124, 97, 69, 121, 44>>}

\* which call of the handling raises: none; conn.recv; send_wol before the
\* datagram leaves; the first http_response; that one and the one of the
\* except branch as well
Faults == {"none", "recv", "send_wol", "http_response", "http_response_twice"}

\* str.split(): the words between blanks
RECURSIVE split(_)
split(s) ==
    LET t == lstrip(s)
    IN  IF t = << >> THEN << >>
        ELSE LET n == CHOOSE n \in 1..Len(t) :
                        /\ \A m \in 1..n : t[m] # " "
                        /\ n = Len(t) \/ t[n + 1] = " "
             IN  <<SubSeq(t, 1, n)>> \o split(SubSeq(t, n + 1, Len(t)))

\* the place of the first c in s, 0 when s has none
find(s, c) ==
    IF \E n \in 1..Len(s) : s[n] = c
    THEN CHOOSE n \in 1..Len(s) : s[n] = c /\ \A m \in 1..(n - 1) : s[m] # c
    ELSE 0

\* main.py parse_request_line: <<method, path>>, <<None, None>> when the
\* first line has fewer than two words
parse_request_line(req) ==
    LET parts == split(req[1])
    IN  IF Len(parts) < 2 THEN <<None, None>> ELSE <<parts[1], parts[2]>>

\* main.py parse_query, the route: the path up to its first "?"
parse_query(path) ==
    IF find(path, "?") = 0 THEN path ELSE SubSeq(path, 1, find(path, "?") - 1)

\* main.py get_header_value: the stripped value of the first header line of
\* that name, "" when there is none; the lines after the request line are
\* read up to the first empty one, lines without a colon are passed over
RECURSIVE get_header_value_from(_, _, _)
get_header_value_from(req, n, header_name) ==
    IF n > Len(req) \/ req[n] = << >> THEN << >>
    ELSE LET line == req[n]
             at == find(line, ":")
         IN  IF at # 0 /\ lower(strip(SubSeq(line, 1, at - 1))) = lower(header_name)
             THEN strip(SubSeq(line, at + 1, Len(line)))
             ELSE get_header_value_from(req, n + 1, header_name)

get_header_value(req, header_name) == get_header_value_from(req, 2, header_name)

\* a cooldown that is never on
in_cooldown_never(now, last_wake_ts) == FALSE

\* now - _last_wake_ts < COOLDOWN_SECONDS
in_cooldown(now, last_wake_ts) == now - last_wake_ts < COOLDOWN_SECONDS

\* http_response(conn, status_code, ...) under the fault of this handling:
\* when the write raises, the except branch writes a 500 in its place, and
\* when that raises too nothing is written (status 0)
Respond(s, status_code, fault) ==
    IF fault = "http_response"
    THEN [s EXCEPT !.status = 500, !.raised = "http_response"]
    ELSE IF fault = "http_response_twice"
    THEN [s EXCEPT !.status = 0, !.raised = "http_response"]
    ELSE [s EXCEPT !.status = status_code]

\* one pass of the loop of serve for the request r under the fault
serve_once(server, r, fault) ==
    LET s == [server EXCEPT !.req = r, !.status = 0, !.raised = "none", !.sent = FALSE]
        req == Requests[r]
        line == parse_request_line(req)
        method == line[1]
        raw_path == line[2]
        key == get_header_value(req, <<"x", "-", "w", "a", "k", "e", "-", "k", "e", "y">>)
    IN  IF fault = "recv" THEN [s EXCEPT !.status = 500, !.raised = "recv"]
        ELSE IF req = << >> THEN s
        ELSE IF method = None \/ raw_path = None THEN Respond(s, 400, fault)
        ELSE IF method # <<"G", "E", "T">> THEN Respond(s, 405, fault)
        ELSE IF parse_query(raw_path) # <<"/", "w", "a", "k", "e">>
        THEN Respond(s, 404, fault)
        ELSE IF key = << >> THEN Respond(s, 401, fault)
        ELSE IF key # s.WAKE_KEY THEN Respond(s, 403, fault)
        ELSE IF s.mac_bytes = None THEN Respond(s, 500, fault)
        ELSE IF in_cooldown(s.now, s.last_wake_ts) THEN Respond(s, 429, fault)
        ELSE IF fault = "send_wol" THEN [s EXCEPT !.status = 500, !.raised = "send_wol"]
        ELSE Respond([s EXCEPT !.packets = Append(@, s.now), !.sent = TRUE,
                               !.last_wake_ts = s.now],
                     200, fault)

\* conn, client = s.accept() and the handling of what was received
Serve ==
    /\ wake_server.raised # "off"
    /\ \E r \in DOMAIN Requests : \E fault \in Faults :
          wake_server' = serve_once(wake_server, r, fault)
    /\ UNCHANGED <<resolver, call, consumer, astro_loop>>

\* time passes until the next moment a request may arrive
Tick ==
    /\ wake_server.raised # "off"
    /\ \E t \in ArrivalTimes :
          /\ t > wake_server.now
          /\ \A u \in ArrivalTimes : u > wake_server.now => t <= u
          /\ wake_server' = [wake_server EXCEPT !.now = t]
    /\ UNCHANGED <<resolver, call, consumer, astro_loop>>

ServerInit ==
    /\ Idle
    /\ call = NoCall
    /\ consumer = NoConsumer
    /\ astro_loop = NoLoop
    /\ \E key \in WakeKeys : \E mac \in MacBytes :
          wake_server = [NoServer EXCEPT !.WAKE_KEY = key, !.mac_bytes = mac,
                                         !.raised = "none"]

ServerNext == Serve \/ Tick

ServerSpec == ServerInit /\ [][ServerNext]_vars

\* ------------------------------------------------------------------ claims

\* C1: mapping uniqueness.  In every committed state at most one entity_map
\* row exists for a pair (dataset_id, source_record_id), also after runs
\* whose transactions overlap.
MappingUniqueness ==
    \A r1, r2 \in entity_map :
        (r1.dataset_id = r2.dataset_id /\ r1.source_record_id = r2.source_record_id)
            => r1 = r2

\* a worker is inside an iteration with the job it was returned
Claimant(w, j) == pc[w] \in InTransaction /\ local[w].job = j

\* C2: claim mutual exclusion.  No job is held by two workers at once: a job
\* returned by fetch_queued_job to one worker is returned to no other worker
\* while the first still holds it.
ClaimMutualExclusion ==
    \A j \in Jobs : \A w1, w2 \in Workers :
        (Claimant(w1, j) /\ Claimant(w2, j)) => w1 = w2

\* two workers hold two different jobs at once, the second having been
\* claimed while the first was locked
ClaimMutualExclusionWitness ==
    \E w1, w2 \in Workers : \E j1, j2 \in Jobs :
        /\ j1 < j2
        /\ Claimant(w1, j1) /\ Holds(w1, j1)
        /\ Claimant(w2, j2) /\ Holds(w2, j2)
        /\ resolution_jobs[j1].status = "queued"

\* the records of w's job that the loop has passed and did not skip
Evaluated(w) ==
    {k \in 1..(local[w].i - 1) :
        ~(SourceRecordId(local[w].job, k) \in DOMAIN local[w].existing)}

Tally(counts) == counts.exact + counts.semantic + counts.created + counts.unmatched

InLoop(w) == pc[w] \in {"records", "except", "commit"} /\ local[w].i >= 1

\* C3: re-run idempotence.  A run that finds records of its dataset already
\* mapped when it starts inserts no mapping row for them and counts none of
\* them in any tally: its tallies count only the other records.
RerunIdempotence ==
    \A w \in Workers : InLoop(w) =>
        /\ \A r \in tx[w].entity_map :
              ~(r.source_record_id \in DOMAIN local[w].existing)
        /\ Tally(local[w].counts) <= Cardinality(Evaluated(w))

\* a run has finished whose records were in part mapped before it started
RerunIdempotenceWitness ==
    \E w \in Workers :
        /\ pc[w] = "commit"
        /\ local[w].i >= 2
        /\ JobRow(w, local[w].job).status = "completed"
        /\ \E k \in 1..(local[w].i - 1) :
              SourceRecordId(local[w].job, k) \in DOMAIN local[w].existing

StatusMoves ==
    {<<"queued", "running">>, <<"running", "completed">>, <<"running", "failed">>}

\* C4: job status is monotonic.  The status of a job row only moves
\* queued -> running -> completed or failed, never back, and a terminal
\* status never changes.
StatusMonotonic ==
    [][\A j \in Jobs :
          \/ RowVersion(j)'.status = RowVersion(j).status
          \/ <<RowVersion(j).status, RowVersion(j)'.status>> \in StatusMoves]_vars

\* no worker is inside an iteration with job j
Released(j) == \A w \in Workers : ~Claimant(w, j)

\* C5: failure recording.  Once the processing of a job has raised (the
\* handler of run_worker logged "Error processing job") and the iteration is
\* over, the job's committed status is failed and exc_info holds the text.
FailureRecorded ==
    \A j \in Jobs :
        ("Error processing" \in log[j] /\ Released(j)) =>
            /\ resolution_jobs[j].status = "failed"
            /\ resolution_jobs[j].exc_info # NULL

\* C6: no automatic retry.  A job whose processing raised is not claimed
\* again by any worker.
NoAutomaticRetry ==
    [][\A j \in Jobs : \A w \in Workers :
          "Error processing" \in log[j] => ~(~Holds(w, j) /\ Holds(w, j)')]_vars

\* the job's input makes its processing raise
Erroring(j) ==
    LET cj == resolution_jobs[j].config_json
    IN  \/ cj.is_str /\ ~cj.valid
        \/ \E k \in DOMAIN records(cj.doc) : records(cj.doc)[k].fault # "none"

\* C7: error isolation and progress.  With every worker running on, every
\* job other than an erroring one is eventually completed or failed.
ErrorIsolationProgress ==
    \A j \in Jobs : ~Erroring(j) => <>(resolution_jobs[j].status \in Terminal)

\* the job whose run drew the uuid of an entity or of a mapping row
WrittenBy(row) == row.id[1]

JobWrites(j) ==
    {r \in entities : WrittenBy(r) = j} \cup {r \in entity_map : WrittenBy(r) = j}

\* C8: atomic job commit.  No entity, mapping row or provenance event of a
\* job is committed while the job's committed status is queued or running,
\* and the step that commits the terminal status of a job commits with it
\* exactly the writes of that execution.
AtomicJobCommit ==
    /\ [](\A j \in Jobs :
            (JobWrites(j) # {} \/ \E ev \in provenance_event : ev.job_id = j)
                => resolution_jobs[j].status \in Terminal)
    /\ [][\A j \in Jobs :
            (resolution_jobs[j].status \notin Terminal
                /\ resolution_jobs'[j].status \in Terminal)
            => \E w \in Workers :
                  /\ Holds(w, j)
                  /\ entities' = entities \cup tx[w].entities
                  /\ entity_map' = entity_map \cup tx[w].entity_map
                  /\ provenance_event' = provenance_event \cup tx[w].provenance_event]_vars

\* a failed job whose partial writes were committed with the failure, and a
\* completed job with its provenance event
AtomicJobCommitWitness ==
    /\ \E j \in Jobs : resolution_jobs[j].status = "failed" /\ JobWrites(j) # {}
    /\ \E j \in Jobs :
          /\ resolution_jobs[j].status = "completed"
          /\ \E ev \in provenance_event : ev.job_id = j

\* C9 as stated: a job whose worker crashed in the middle of it is running
\* in every later state and held by no other worker.
CrashLeavesRunning ==
    \A w \in Workers : pc[w] = "crashed" =>
        /\ resolution_jobs[local[w].job].status = "running"
        /\ \A w2 \in Workers : ~Holds(w2, local[w].job)

\* C9 amended: the crash of a worker in the middle of a job rolls the claim
\* back with the rest of the transaction: right after it the job is queued,
\* unlocked and claimable again; a committed status is never running.
CrashRequeues ==
    /\ [](\A j \in Jobs : resolution_jobs[j].status # "running")
    /\ [][\A w \in Workers :
            (pc[w] # "crashed" /\ pc'[w] = "crashed") =>
                /\ resolution_jobs'[local[w].job].status = "queued"
                /\ ~Locked(local[w].job)'
                /\ Claimable(local[w].job)']_vars

\* the job of a crashed worker is in the hands of another worker
CrashRequeuesWitness ==
    \E w, w2 \in Workers :
        /\ pc[w] = "crashed"
        /\ w2 # w
        /\ Claimant(w2, local[w].job)
        /\ Holds(w2, local[w].job)

\* w is about to run the conditional INSERT for a pair that has a visible row
UpsertOnExisting(w) ==
    /\ pc[w] = "records"
    /\ local[w].i <= Len(records(Config(local[w].job)))
    /\ ~AlreadyMapped(SourceRecordId(local[w].job, local[w].i), local[w].existing)
    /\ LET m == Match(local[w].job, local[w].i, local[w].entities)
       IN  ~m.raises /\ m.entity_id # None
    /\ records(Config(local[w].job))[local[w].i].fault = "none"
    /\ \E r \in VisibleEntityMap(w) :
          /\ r.dataset_id = resolution_jobs[local[w].job].dataset_id
          /\ r.source_record_id = SourceRecordId(local[w].job, local[w].i)

\* C10: mapping rows are insert-only.  The conditional insert for a pair
\* (dataset_id, source_record_id) that has a row adds no row and no tally
\* (it returns false), and no step changes or removes a committed row.
MappingInsertOnly ==
    /\ [][entity_map \subseteq entity_map']_vars
    /\ [][\A w \in Workers :
            (UpsertOnExisting(w) /\ local'[w].i = local[w].i + 1) =>
                /\ tx'[w].entity_map = tx[w].entity_map
                /\ entity_map' = entity_map
                /\ local'[w].counts = local[w].counts]_vars

\* a run went past a record that it matched but whose pair had been mapped
\* by another job after the run had loaded the existing mappings: the
\* record is in no tally and the run has written no row for it
MappingInsertOnlyWitness ==
    \E w \in Workers :
        /\ InLoop(w)
        /\ Tally(local[w].counts) < Cardinality(Evaluated(w))
        /\ \E k \in Evaluated(w) : \E r \in entity_map :
              /\ r.source_record_id = SourceRecordId(local[w].job, k)
              /\ r.dataset_id = resolution_jobs[local[w].job].dataset_id
              /\ WrittenBy(r) # local[w].job
              /\ \A t \in tx[w].entity_map : t.id # <<local[w].job, k>>

\* C11: claim selection.  fetch_queued_job is one step: the job it returns
\* was committed queued and locked by no claimant, and had the smallest
\* created_at of all such jobs; the step sets its status to running and
\* stamps started_at; it returns none only when no unlocked queued job
\* exists, and returns a job whenever one does.
ClaimSelection ==
    [][\A w \in Workers :
          /\ (pc[w] = "poll" /\ pc'[w] = "process_job") =>
                LET j == local'[w].job
                IN  /\ resolution_jobs[j].status = "queued"
                    /\ ~Locked(j)
                    /\ \A k \in Jobs :
                          (resolution_jobs[k].status = "queued" /\ ~Locked(k)) =>
                              resolution_jobs[j].created_at <= resolution_jobs[k].created_at
                    /\ j \in DOMAIN tx'[w].resolution_jobs
                    /\ tx'[w].resolution_jobs[j].status = "running"
                    /\ tx'[w].resolution_jobs[j].started_at # NULL
                    /\ \A k \in Jobs \ {j} : RowVersion(k)' = RowVersion(k)
          /\ (pc[w] = "poll" /\ pc'[w] = "sleep") =>
                \A k \in Jobs : ~(resolution_jobs[k].status = "queued" /\ ~Locked(k))]_vars

\* a worker was returned the second-oldest job while the oldest was queued
\* and locked by another claimant
ClaimSelectionWitness ==
    \E w1, w2 \in Workers :
        /\ w1 # w2
        /\ Holds(w1, 1) /\ resolution_jobs[1].status = "queued"
        /\ Holds(w2, 2) /\ tx[w2].resolution_jobs[2].status = "running"
        /\ tx[w2].resolution_jobs[2].started_at # NULL

\* the trimmed, case-folded, non-empty join-key values of a record
NormalizedJoinValues(keys, jk) ==
    {lower(strip(keys[jk[n]])) : n \in {m \in 1..Len(jk) : jk[m] \in DOMAIN keys}}
        \ {<< >>}

\* the trimmed, case-folded display name and external ids of an entity
NormalizedEntityValues(e) ==
    {lower(strip(e.display_name))} \cup {lower(strip(v)) : v \in Values(e.external_ids)}

Qualifies(keys, e, jk) ==
    NormalizedJoinValues(keys, jk) \cap NormalizedEntityValues(e) # {}

\* the id of the first entity of the list that qualifies, None without one
FirstQualifying(keys, ents, jk) ==
    LET q == {n \in 1..Len(ents) : Qualifies(keys, ents[n], jk)}
    IN  IF q = {} THEN None ELSE ents[CHOOSE n \in q : \A m \in q : n <= m].id

\* w is at the head of the loop with a record it will not skip
AtRecord(w) ==
    /\ pc[w] = "records"
    /\ local[w].i <= Len(records(Config(local[w].job)))
    /\ ~AlreadyMapped(SourceRecordId(local[w].job, local[w].i), local[w].existing)

\* the rows w's run has written for record i of its job
RowsOf(w, i) == {r \in tx[w].entity_map : r.id = <<local[w].job, i>>}

\* C12: exact-match result.  For every record, candidate list and joinKeys,
\* exact_match returns the id of the first entity in list order whose
\* normalized display name or external ids meet the normalized non-empty
\* join-key values of the record, and None when no entity does; the row
\* written for a record matched this way has method exact and score 1.0 and
\* is counted in the tally exact.
ExactMatchResult ==
    [][\A w \in Workers : (pc[w] = "records") =>
          LET j == local[w].job
              i == local[w].i
              recs == records(Config(j))
              jk == join_keys(Config(j))
          IN  /\ \A k \in DOMAIN recs :
                    exact_match(recs[k].keys, local[w].entities, jk)
                        = FirstQualifying(recs[k].keys, local[w].entities, jk)
              /\ (AtRecord(w) /\ local'[w].i = i + 1
                    /\ FirstQualifying(recs[i].keys, local[w].entities, jk) # None) =>
                    /\ \A r \in tx'[w].entity_map \ tx[w].entity_map :
                          /\ r.entity_id
                                = FirstQualifying(recs[i].keys, local[w].entities, jk)
                          /\ r.method = "exact"
                          /\ r.score = 10000
                          /\ r.source_record_id = SourceRecordId(j, i)
                    /\ local'[w].counts =
                          [local[w].counts EXCEPT !.exact =
                              @ + Cardinality(tx'[w].entity_map \ tx[w].entity_map)]
                    /\ (\A r \in VisibleEntityMap(w) :
                            r.source_record_id # SourceRecordId(j, i))
                          => tx'[w].entity_map # tx[w].entity_map]_vars

\* of two candidates that both qualify for the record "al", one by its
\* padded code and one by its name in another case, the one listed first
\* was mapped, with method exact and score 1.0
ExactMatchResultWitness ==
    \E w \in Workers : \E r \in tx[w].entity_map :
        /\ Len(local[w].entities) >= 2
        /\ local[w].entities[1].id = <<0, 2>>
        /\ local[w].entities[2].id = <<0, 1>>
        /\ r.source_record_id = "a"
        /\ r.source_keys = RecAl.keys
        /\ r.entity_id = <<0, 2>>
        /\ r.method = "exact"
        /\ r.score = 10000
        /\ local[w].counts.exact >= 1

\* the threshold a job asks for: config_json["threshold"], 0.85 without one
JobThreshold(config) ==
    IF "threshold" \in DOMAIN config THEN config.threshold ELSE DefaultThreshold

\* the candidates that have a name to compare the record's text with
Named(ents) == {n \in 1..Len(ents) : strip(ents[n].display_name) # << >>}

Similarity(text, e) == Dot(Encode(strip(text)), Encode(strip(e.display_name)))

\* the best similarity of the record's text among the named candidates
BestSimilarity(text, ents) ==
    LET n == CHOOSE n \in Named(ents) :
                \A m \in Named(ents) : Similarity(text, ents[m]) <= Similarity(text, ents[n])
    IN  Similarity(text, ents[n])

\* no entity of the list is an exact match of the record
NoExact(keys, ents, jk) == jk = << >> \/ FirstQualifying(keys, ents, jk) = None

\* C13: semantic threshold boundary.  With no exact match and creation
\* disabled, a record whose best candidate similarity is equal to (or above)
\* the job's threshold is mapped with method semantic, one whose best
\* similarity is strictly below it gets no mapping and is tallied unmatched;
\* every mapping row with method semantic has a score >= the job's threshold.
SemanticThresholdBoundary ==
    [][\A w \in Workers :
          LET j == local[w].job
              i == local[w].i
              config == Config(j)
              rec == records(config)[i]
              text == _build_text(rec.keys, semantic_fields(config))
              new == tx'[w].entity_map \ tx[w].entity_map
          IN  /\ (/\ AtRecord(w) /\ local'[w].i = i + 1
                  /\ NoExact(rec.keys, local[w].entities, join_keys(config))
                  /\ ~create_if_no_match(config)
                  /\ text # << >> /\ Named(local[w].entities) # {}
                  /\ \A r \in VisibleEntityMap(w) :
                        r.source_record_id # SourceRecordId(j, i)) =>
                    IF BestSimilarity(text, local[w].entities) >= JobThreshold(config)
                    THEN /\ new # {}
                         /\ \A r \in new : r.method = "semantic"
                    ELSE /\ new = {}
                         /\ local'[w].counts =
                               [local[w].counts EXCEPT !.unmatched = @ + 1]
              /\ pc[w] = "records" =>
                    \A r \in tx'[w].entity_map :
                        r.method = "semantic" => r.score >= JobThreshold(config)]_vars

\* the semantic step finds no entity for the text among the candidates
NoSemantic(text, ents, config) ==
    \/ text = << >>
    \/ Named(ents) = {}
    \/ BestSimilarity(text, ents) < threshold(config)

\* C14: method precedence.  For every processed record the first step that
\* succeeds decides: a record that has an exact match under the configured
\* joinKeys is mapped with method exact and no entity is created for it; a
\* row with method semantic is written only when the exact step found no
\* entity; an entity is created, and a row with method created written, only
\* when both steps found none and createIfNoMatch is true.
MethodPrecedence ==
    [][\A w \in Workers :
          LET j == local[w].job
              i == local[w].i
              config == Config(j)
              rec == records(config)[i]
              ents == local[w].entities
              text == _build_text(rec.keys, semantic_fields(config))
              new == tx'[w].entity_map \ tx[w].entity_map
              made == tx'[w].entities \ tx[w].entities
              fallback == /\ NoExact(rec.keys, ents, join_keys(config))
                          /\ NoSemantic(text, ents, config)
                          /\ create_if_no_match(config)
          IN  (AtRecord(w) /\ local'[w].i = i + 1) =>
                /\ ~NoExact(rec.keys, ents, join_keys(config)) =>
                      /\ \A r \in new : r.method = "exact"
                      /\ made = {}
                      /\ local'[w].counts.semantic = local[w].counts.semantic
                      /\ local'[w].counts.created = local[w].counts.created
                /\ \A r \in new :
                      /\ r.method = "semantic" =>
                            NoExact(rec.keys, ents, join_keys(config))
                      /\ r.method = "created" => fallback
                /\ made # {} => fallback
                /\ fallback => made # {}]_vars

\* a record that had both an exact match and a candidate above the
\* threshold was mapped with method exact, and a later record of the run
\* without either was created
MethodPrecedenceWitness ==
    \E w \in Workers : \E r1, r2 \in tx[w].entity_map :
        /\ r1.source_record_id = "a" /\ r1.method = "exact"
        /\ r1.source_keys = RecAl.keys
        /\ join_keys(Config(local[w].job)) = <<"name">>
        /\ threshold(Config(local[w].job)) <= 9600
        /\ \E n \in DOMAIN local[w].entities : local[w].entities[n].id = <<0, 1>>
        /\ r2.method = "created"
        /\ tx[w].entities # {}

\* the text run_resolution builds of record k of job j for the semantic step
SemanticText(j, k) ==
    _build_text(records(Config(j))[k].keys, semantic_fields(Config(j)))

\* C15: within-batch consolidation.  In one job with createIfNoMatch true, of
\* two records with identical (non-empty) semantic-field text of which the
\* first was tallied created, the second is mapped to an entity with method exact or
\* semantic and not created: one entity is created for the pair.
WithinBatchConsolidation ==
    \A w \in Workers :
        (InLoop(w) /\ create_if_no_match(Config(local[w].job))) =>
            \A k1, k2 \in 1..(local[w].i - 1) :
                (/\ k1 < k2
                 /\ SemanticText(local[w].job, k1) = SemanticText(local[w].job, k2)
                 /\ SemanticText(local[w].job, k1) # << >>
                 /\ \E r \in RowsOf(w, k1) : r.method = "created") =>
                    /\ \A r \in RowsOf(w, k2) : r.method \in {"exact", "semantic"}
                    /\ ~\E e \in tx[w].entities : e.id = <<local[w].job, k2>>

\* the records of job j have pairwise distinct source_record_ids
DistinctIds(j) ==
    \A k1, k2 \in DOMAIN records(Config(j)) :
        SourceRecordId(j, k1) = SourceRecordId(j, k2) => k1 = k2

Matched(counts) == counts.exact + counts.semantic + counts.created

\* C16: tallies partition the records.  In a run alone over records with
\* pairwise distinct, previously unmapped source_record_ids, after every
\* record the four tallies add up to the number of records processed and the
\* mapping rows added are exact + semantic + created in number; so it is
\* for the result_summary and the rows of the committed job.
TalliesPartition ==
    /\ \A w \in Workers :
          (InLoop(w) /\ DistinctIds(local[w].job)) =>
              /\ Tally(local[w].counts) = local[w].i - 1
              /\ Cardinality(tx[w].entity_map) = Matched(local[w].counts)
              /\ pc[w] = "commit" =>
                    Tally(local[w].counts) = Len(records(Config(local[w].job)))
    /\ \A j \in Jobs :
          (resolution_jobs[j].status = "completed" /\ DistinctIds(j)) =>
              /\ Tally(resolution_jobs[j].result_summary[1]) = Len(records(Config(j)))
              /\ Cardinality({r \in entity_map : WrittenBy(r) = j})
                    = Matched(resolution_jobs[j].result_summary[1])

\* a committed run of three records, one matched exactly, one semantically
\* and one not at all: tally {1, 1, 0, 1} and two new rows
TalliesPartitionWitness ==
    /\ resolution_jobs[1].status = "completed"
    /\ resolution_jobs[1].result_summary =
          <<[exact |-> 1, semantic |-> 1, created |-> 0, unmatched |-> 1]>>
    /\ Len(records(Config(1))) = 3
    /\ Cardinality(entity_map) = 2
    /\ {r.method : r \in entity_map} = {"exact", "semantic"}

\* the provenance events of stage resolution written for job j
EventsOf(P, j) == {ev \in P : ev.job_id = j /\ ev.stage = "resolution"}

DetailCounts(ev) ==
    [exact |-> ev.detail.exact, semantic |-> ev.detail.semantic,
     created |-> ev.detail.created, unmatched |-> ev.detail.unmatched]

\* C17: provenance per execution.  Every execution that ends with the job
\* completed has written exactly one provenance_event row of stage
\* resolution for the job, whose four counts are the job's result_summary;
\* no execution writes more than one.
ProvenancePerExecution ==
    /\ \A j \in Jobs : resolution_jobs[j].status = "completed" =>
          /\ Cardinality(EventsOf(provenance_event, j)) = 1
          /\ \A ev \in EventsOf(provenance_event, j) :
                <<DetailCounts(ev)>> = resolution_jobs[j].result_summary
    /\ \A w \in Workers : \A j \in Jobs :
          Cardinality(EventsOf(tx[w].provenance_event, j)) <= 1

TallyFields == {"exact", "semantic", "created", "unmatched"}

\* C18: terminal fields.  In every committed state a completed job has
\* ended_at set and result_summary set to the four-field tally that
\* run_resolution returned for the execution, and a failed job has ended_at
\* set and exc_info set to the error text; the same holds of the row a
\* worker is about to commit.
TerminalFields ==
    /\ \A j \in Jobs :
          LET row == resolution_jobs[j]
          IN  /\ row.status = "completed" =>
                    /\ row.ended_at # NULL
                    /\ row.result_summary # NULL
                    /\ DOMAIN row.result_summary[1] = TallyFields
                    /\ row.exc_info = NULL
              /\ row.status = "failed" =>
                    /\ row.ended_at # NULL
                    /\ row.exc_info # NULL
                    /\ row.result_summary = NULL
    /\ \A w \in Workers :
          pc[w] = "commit" =>
              LET row == tx[w].resolution_jobs[local[w].job]
              IN  /\ row.status \in Terminal
                  /\ row.ended_at # NULL
                  /\ row.status = "completed" =>
                        row.result_summary = <<local[w].counts>>
                  /\ row.status = "failed" => row.exc_info = <<local[w].e>>

\* a completed job with a tally that is not zero and a failed job with its
\* error text are committed
TerminalFieldsWitness ==
    /\ \E j \in Jobs :
          /\ resolution_jobs[j].status = "completed"
          /\ resolution_jobs[j].result_summary # NULL
          /\ Tally(resolution_jobs[j].result_summary[1]) > 0
    /\ \E j \in Jobs :
          /\ resolution_jobs[j].status = "failed"
          /\ resolution_jobs[j].exc_info \in {<<"EmbeddingError">>, <<"JSONDecodeError">>}

\* json.loads accepts the job's config_json
Parsable(j) ==
    ~(resolution_jobs[j].config_json.is_str /\ ~resolution_jobs[j].config_json.valid)

\* the entities and mapping rows written by the executions of job j,
\* committed or not
AllWrites(j) ==
    JobWrites(j)
        \cup UNION {{r \in tx[w].entities \cup tx[w].entity_map : WrittenBy(r) = j} :
                      w \in Workers}

\* C19: empty-records no-op.  A job whose config has no records (the key is
\* missing or the list is empty) is never recorded as failed: its execution
\* goes from the claim straight to completed with result_summary
\* {exact:0, semantic:0, created:0, unmatched:0}, creates no entity and
\* inserts no mapping row.
EmptyRecordsNoOp ==
    \A j \in Jobs : (Parsable(j) /\ records(Config(j)) = << >>) =>
        /\ resolution_jobs[j].status \in {"queued", "completed"}
        /\ resolution_jobs[j].status = "completed" =>
              resolution_jobs[j].result_summary =
                  <<[exact |-> 0, semantic |-> 0, created |-> 0, unmatched |-> 0]>>
        /\ AllWrites(j) = {}
        /\ "Error processing" \notin log[j]
        /\ \A w \in Workers : (Claimant(w, j) /\ pc[w] # "process_job") =>
              /\ pc[w] = "commit"
              /\ tx[w].resolution_jobs[j].status = "completed"
              /\ tx[w].resolution_jobs[j].result_summary =
                    <<[exact |-> 0, semantic |-> 0, created |-> 0, unmatched |-> 0]>>

\* a job without the key records and a job with an empty list are both
\* committed as completed, and the tables are as they were before
EmptyRecordsNoOpWitness ==
    /\ \E j \in Jobs :
          /\ "records" \notin DOMAIN Config(j) /\ Parsable(j)
          /\ resolution_jobs[j].status = "completed"
    /\ \E j \in Jobs :
          /\ "records" \in DOMAIN Config(j)
          /\ Config(j).records = << >>
          /\ resolution_jobs[j].status = "completed"
    /\ entities = SeedEntities
    /\ entity_map = {}

\* C20: unparsable configuration.  A job whose config_json cannot be parsed
\* makes run_resolution raise before any read or write: its execution goes
\* from the claim to the exception handler, the job is committed failed with
\* exc_info set, and no entity, mapping row or provenance event is written
\* for it.
UnparsableConfigFails ==
    \A j \in Jobs : ~Parsable(j) =>
        /\ resolution_jobs[j].status \in {"queued", "failed"}
        /\ resolution_jobs[j].status = "failed" =>
              /\ resolution_jobs[j].exc_info = <<"JSONDecodeError">>
              /\ "Error processing" \in log[j]
        /\ AllWrites(j) = {}
        /\ EventsOf(provenance_event, j) = {}
        /\ \A w \in Workers :
              /\ EventsOf(tx[w].provenance_event, j) = {}
              /\ Claimant(w, j) =>
                    /\ pc[w] \in {"process_job", "except", "commit"}
                    /\ local[w].entities = << >> /\ local[w].existing = << >>
                    /\ pc[w] = "except" => local[w].e = "JSONDecodeError"
                    /\ pc[w] = "commit" => tx[w].resolution_jobs[j].status = "failed"

\* a job with an unparsable config_json is committed as failed
UnparsableConfigFailsWitness ==
    \E j \in Jobs :
        /\ ~Parsable(j)
        /\ resolution_jobs[j].status = "failed"
        /\ resolution_jobs[j].exc_info # NULL
        /\ resolution_jobs[j].ended_at # NULL

\* the record's text has no candidate at or above the threshold the job asks for
NothingSimilar(text, ents, config) ==
    \/ text = << >>
    \/ Named(ents) = {}
    \/ BestSimilarity(text, ents) < JobThreshold(config)

\* C21: creation is opt-in and unmatched records write nothing.  With
\* createIfNoMatch false or absent a run creates no entity and leaves the
\* entities table as it was; every record of such a run that matches neither
\* exactly nor semantically (also one whose semantic text is empty) gets no
\* mapping row and raises unmatched by exactly one, no other tally moving.
CreationOptIn ==
    [][\A w \in Workers :
          LET j == local[w].job
              i == local[w].i
              config == Config(j)
              rec == records(config)[i]
              text == _build_text(rec.keys, semantic_fields(config))
          IN  (pc[w] \in {"records", "commit"}
                 /\ ("createIfNoMatch" \in DOMAIN config => ~config.createIfNoMatch)) =>
                /\ tx'[w].entities = {}
                /\ entities' = entities
                /\ (/\ AtRecord(w)
                    /\ NoExact(rec.keys, local[w].entities, join_keys(config))
                    /\ NothingSimilar(text, local[w].entities, config)) =>
                      /\ tx'[w].entity_map = tx[w].entity_map
                      /\ local'[w].i = i + 1
                      /\ local'[w].counts =
                            [local[w].counts EXCEPT !.unmatched = @ + 1]]_vars

\* a committed run without createIfNoMatch over a record with no name, whose
\* semantic text is empty, and a record no entity resembles: both tallied
\* unmatched, no row written and the entities as they were
CreationOptInWitness ==
    /\ resolution_jobs[1].status = "completed"
    /\ ~("createIfNoMatch" \in DOMAIN Config(1))
    /\ \E k1, k2 \in DOMAIN records(Config(1)) :
          /\ SemanticText(1, k1) = << >>
          /\ SemanticText(1, k2) # << >>
    /\ resolution_jobs[1].result_summary[1].unmatched = Len(records(Config(1)))
    /\ entity_map = {}
    /\ entities = SeedEntities

\* w is at the head of the loop with a record whose source_record_id has a
\* mapping for the dataset, committed or written by w's own run
AtMappedRecord(w) ==
    /\ pc[w] = "records"
    /\ local[w].i <= Len(records(Config(local[w].job)))
    /\ \E r \in VisibleEntityMap(w) :
          /\ r.dataset_id = resolution_jobs[local[w].job].dataset_id
          /\ r.source_record_id = SourceRecordId(local[w].job, local[w].i)

\* C27: at-most-once processing within a job.  A record whose
\* source_record_id already has a mapping for the dataset when the loop
\* reaches it, written by an earlier job or by an earlier record of the same
\* job, is skipped entirely: the loop moves on, no entity is created, no
\* row is written and no tally, unmatched included, changes.
SkipsMappedRecord ==
    [][\A w \in Workers : AtMappedRecord(w) =>
          /\ pc'[w] = "records"
          /\ local'[w].i = local[w].i + 1
          /\ local'[w].counts = local[w].counts
          /\ tx'[w].entities = tx[w].entities
          /\ tx'[w].entity_map = tx[w].entity_map]_vars

Methods == {"exact", "semantic", "created"}

\* C28: the tally follows the insert.  A method's tally is incremented only
\* when the conditional insert added the row: throughout a run, and in the
\* result_summary of a completed job, each of exact, semantic and created is
\* the number of mapping rows the run inserted with that method, also when
\* another writer had inserted some of the same keys first.
TallyFollowsInsert ==
    /\ \A w \in Workers : InLoop(w) =>
          \A m \in Methods :
              local[w].counts[m] = Cardinality({r \in tx[w].entity_map : r.method = m})
    /\ \A j \in Jobs : resolution_jobs[j].status = "completed" =>
          \A m \in Methods :
              resolution_jobs[j].result_summary[1][m]
                  = Cardinality({r \in entity_map : WrittenBy(r) = j /\ r.method = m})

\* a run reached its commit having matched a record that was unmapped when
\* the run loaded the mappings and mapped by another job's commit before
\* the run's insert: the record is in no tally and the run wrote no row for it
TallyFollowsInsertWitness ==
    \E w \in Workers : \E k \in Evaluated(w) :
        /\ pc[w] = "commit"
        /\ \E r \in entity_map :
              /\ r.source_record_id = SourceRecordId(local[w].job, k)
              /\ WrittenBy(r) # local[w].job
        /\ RowsOf(w, k) = {}
        /\ Tally(local[w].counts) < Cardinality(Evaluated(w))
        /\ Matched(local[w].counts) >= 1

\* the entities job j's run created
CreatedBy(E, j) == {e \in E : e.id[1] = j}

\* C29: every created entity is mapped.  Every entity a run creates is the
\* target of a mapping row the same run inserted, and the number of entities
\* the run created is its created tally, also when the conditional insert
\* for a record does not happen: no committed run leaves an entity of its
\* own without a mapping.
CreatedEntitiesMapped ==
    \A j \in Jobs : resolution_jobs[j].status = "completed" =>
        /\ Cardinality(CreatedBy(entities, j))
              = resolution_jobs[j].result_summary[1].created
        /\ \A e \in CreatedBy(entities, j) :
              \E r \in entity_map : WrittenBy(r) = j /\ r.entity_id = e.id

\* thresholds semantic_match is tried with, in ten-thousandths
ThresholdsTried == {0}

\* the first of the named candidates, in list order, that is most similar to the text
FirstBest(text, ents) ==
    CHOOSE n \in Named(ents) :
        /\ Similarity(text, ents[n]) = BestSimilarity(text, ents)
        /\ \A m \in Named(ents) :
              Similarity(text, ents[m]) = BestSimilarity(text, ents) => n <= m

\* C30: semantic selection.  semantic_match compares the text only with the
\* candidates that have a non-empty display name; it returns the most
\* similar of them when that similarity is at or above the threshold, the
\* earliest in list order among equally similar ones, with that similarity
\* as the score; it returns no entity when the text is empty, the list is
\* empty, no candidate has a name or the best similarity is below the
\* threshold.
SemanticSelection ==
    \A w \in Workers : pc[w] = "records" =>
        \A k \in DOMAIN records(Config(local[w].job)) :
            \A thr \in ThresholdsTried \cup {threshold(Config(local[w].job))} :
                LET ents == local[w].entities
                    text == SemanticText(local[w].job, k)
                    res == semantic_match(text, ents, thr)
                IN  IF text = << >> \/ ents = << >> \/ Named(ents) = {}
                    THEN res[1] = None
                    ELSE IF BestSimilarity(text, ents) >= thr
                    THEN /\ res[1] = ents[FirstBest(text, ents)].id
                         /\ res[2] = BestSimilarity(text, ents)
                    ELSE res[1] = None

\* a record had two equally similar named candidates at the threshold or
\* above, a nameless candidate apart, and was mapped semantically to the
\* one listed first
SemanticSelectionWitness ==
    \E w \in Workers : \E k \in 1..(local[w].i - 1) : \E r \in RowsOf(w, k) :
        LET ents == local[w].entities
            text == SemanticText(local[w].job, k)
        IN  /\ pc[w] = "records"
            /\ r.method = "semantic"
            /\ DOMAIN ents # Named(ents)
            /\ \E n1, n2 \in Named(ents) :
                  /\ n1 < n2
                  /\ Similarity(text, ents[n1]) = BestSimilarity(text, ents)
                  /\ Similarity(text, ents[n2]) = BestSimilarity(text, ents)
                  /\ r.entity_id = ents[n1].id
                  /\ r.score = BestSimilarity(text, ents)

\* x and y differ by a whole number of turns
Congruent(x, y) == \E k \in -4..4 : x - y = 360 * k

\* the shorter of the two arcs between the directions a and b
ShorterArc(a, b) ==
    LET arcs == {Abs(a - b + 360 * k) : k \in -4..4}
    IN  CHOOSE d \in arcs : \A e \in arcs : d <= e

\* C22: angle helpers, over integer degrees.  wrap360(x) lies in [0, 360)
\* and is congruent to x modulo 360 (370 gives 10, -10 gives 350);
\* ang_distance(a, b) lies in [0, 180], equals ang_distance(b, a) and is the
\* shorter arc between the two angles (10 and 350 give 20).
AngleHelpers ==
    call.kind = "angles" =>
        LET a == call.args[1]
            b == call.args[2]
        IN  /\ call.fn = "wrap360" =>
                  /\ call.out \in 0..359
                  /\ Congruent(call.out, a)
                  /\ a = 370 => call.out = 10
                  /\ a = -10 => call.out = 350
            /\ call.fn = "ang_distance" =>
                  /\ call.out \in 0..180
                  /\ call.out = ang_distance(b, a)
                  /\ call.out = ShorterArc(a, b)
                  /\ (a = 10 /\ b = 350) => call.out = 20

\* ang_distance was called with -10 and 370, which wrap to 350 and 10, and
\* returned 20
AngleHelpersWitness ==
    /\ call.kind = "angles"
    /\ call.fn = "ang_distance"
    /\ call.args = <<-10, 370>>
    /\ call.out = 20

RECURSIVE SumOver(_, _)
SumOver(f, D) ==
    IF D = {} THEN 0
    ELSE LET x == CHOOSE x \in D : TRUE
         IN  f[x] + SumOver(f, D \ {x})

\* C24: element and modality tallies.  For every non-empty map of
\* longitudes the element ratios of elem_modality_tallies sum to 1 and the
\* modality ratios sum to 1; with every body at longitude 0 the ratios are
\* fire = 1 and cardinal = 1 and every other ratio 0.
RatiosSumToOne ==
    (call.kind = "chart" /\ call.fn = "elem_modality_tallies" /\ call.args # << >>) =>
        LET elems == call.out[1]
            mods == call.out[2]
        IN  /\ SumOver(elems, DOMAIN elems) = 1000000
            /\ SumOver(mods, DOMAIN mods) = 1000000
            /\ (\A n \in DOMAIN call.args : call.args[n].lon = 0) =>
                  /\ elems = [fire |-> 1000000, earth |-> 0, air |-> 0, water |-> 0]
                  /\ mods = [cardinal |-> 1000000, fixed |-> 0, mutable |-> 0]

\* the aspects whose angle the distance d is within the smaller of the two
\* bodies' orbs of
Qualifying(a, b, d) ==
    {n \in DOMAIN ASPECTS :
        /\ Abs(d - ASPECTS[n].angle) <= BodyOrb(a, ASPECTS[n].name)
        /\ Abs(d - ASPECTS[n].angle) <= BodyOrb(b, ASPECTS[n].name)}

\* C25: aspect detection.  compute_aspects emits at most one aspect per
\* unordered pair of bodies; a pair gets an aspect exactly when its angular
\* distance is within the smaller of the two bodies' orbs of some aspect
\* angle; the aspect emitted is the qualifying one with the smallest
\* deviation, and its strength lies in [0, 1] (two bodies 5 degrees apart
\* yield a conjunction).
AspectDetection ==
    (call.kind = "chart" /\ call.fn = "compute_aspects") =>
        LET longs == call.args
            out == call.out
            emitted(i, j) == {n \in DOMAIN out :
                                {out[n].a, out[n].b} = {longs[i].name, longs[j].name}}
        IN  /\ \A i, j \in DOMAIN longs : i < j =>
                  LET d == ShorterArc(longs[i].lon, longs[j].lon)
                      q == Qualifying(longs[i].name, longs[j].name, d)
                  IN  /\ Cardinality(emitted(i, j)) <= 1
                      /\ emitted(i, j) # {} <=> q # {}
                      /\ \A n \in emitted(i, j) :
                            /\ \E m \in q :
                                  /\ out[n].aspect = ASPECTS[m].name
                                  /\ out[n].deviation = Abs(d - ASPECTS[m].angle)
                                  /\ \A m2 \in q :
                                        out[n].deviation <= Abs(d - ASPECTS[m2].angle)
                            /\ out[n].angle = d
                            /\ out[n].strength \in 0..10000
                      /\ d = 5 => \E n \in emitted(i, j) : out[n].aspect = "conjunction"
            /\ \A n \in DOMAIN out : \E i, j \in DOMAIN longs :
                  i < j /\ out[n].a = longs[i].name /\ out[n].b = longs[j].name

\* the sun at 0 and chiron at 7 got no aspect, 7 being within the sun's orb
\* of a conjunction and not within chiron's, and mars at 725, five degrees
\* from the sun and two from chiron, got a conjunction with each
AspectDetectionWitness ==
    /\ call.kind = "chart"
    /\ call.fn = "compute_aspects"
    /\ call.args = <<[name |-> "sun", lon |-> 0], [name |-> "mars", lon |-> 725],
                     [name |-> "chiron", lon |-> 7]>>
    /\ Len(call.out) = 2
    /\ call.out[1] = [a |-> "sun", b |-> "mars", aspect |-> "conjunction",
                      angle |-> 5, deviation |-> 5, strength |-> 2857]
    /\ call.out[2].a = "mars" /\ call.out[2].b = "chiron"
    /\ call.out[2].aspect = "conjunction"

\* C26: log_event payload.  Every call of log_event issues exactly one
\* INSERT into provenance_event with the parameters (person_id, stage,
\* detail); detail always has status, has count, duration_ms and error
\* exactly when the argument is not None, and has meta exactly when meta is
\* non-empty.
LogEventPayload ==
    (call.kind = "event" /\ call.fn = "log_event") =>
        LET args == call.args
            optional == {"count", "duration_ms", "error"}
        IN  /\ Len(call.out) = 1
            /\ call.out[1].query.verb = "INSERT"
            /\ call.out[1].query.table = "provenance_event"
            /\ Len(call.out[1].params) = 3
            /\ call.out[1].params[1] = args.person_id
            /\ call.out[1].params[2] = args.stage
            /\ LET detail == call.out[1].params[3]
               IN  /\ "status" \in DOMAIN detail
                   /\ detail["status"] = args.status
                   /\ \A k \in optional :
                         /\ k \in DOMAIN detail <=> args[k] # None
                         /\ k \in DOMAIN detail => detail[k] = args[k][1]
                   /\ "meta" \in DOMAIN detail <=>
                         (args.meta # None /\ args.meta[1] # {})
                   /\ "meta" \in DOMAIN detail => detail["meta"] = args.meta[1]
                   /\ DOMAIN detail \subseteq optional \cup {"status", "meta"}

\* an event was logged with count 0, an empty error text and an empty meta:
\* detail has count and error and no meta
LogEventPayloadWitness ==
    /\ call.kind = "event"
    /\ call.fn = "log_event"
    /\ call.args.count = <<0>>
    /\ call.args.error = <<"">>
    /\ call.args.meta = <<{}>>
    /\ call.args.duration_ms = None
    /\ DOMAIN call.out[1].params[3] = {"status", "count", "error"}

\* C31: partial progress survives a processing error.  When processing
\* raises an exception that is not a database error, the handler writes the
\* failed status into the transaction that already holds the entities and
\* mapping rows of the records resolved before the exception, and the commit
\* that follows makes the failed status, those entities and those rows
\* visible together: nothing the run wrote is rolled back.
PartialProgressCommitted ==
    [][\A w \in Workers :
          LET j == local[w].job
          IN  /\ (pc[w] = "except" /\ local[w].e # "DatabaseError"
                    /\ pc'[w] \notin {"except", "crashed"})
                 => /\ pc'[w] = "commit"
                    /\ tx'[w].entities = tx[w].entities
                    /\ tx'[w].entity_map = tx[w].entity_map
                    /\ tx'[w].resolution_jobs[j].status = "failed"
                    /\ tx'[w].resolution_jobs[j].exc_info = <<local[w].e>>
              /\ (pc[w] = "commit" /\ pc'[w] = "sleep"
                    /\ tx[w].resolution_jobs[j].status = "failed")
                 => /\ resolution_jobs'[j].status = "failed"
                    /\ tx[w].entities \subseteq entities'
                    /\ tx[w].entity_map \subseteq entity_map'
                    /\ resolution_jobs[j].status # "failed"]_vars

\* a job committed as failed by an embedding error, with an entity it
\* created and a mapping row it wrote before the error committed as well
PartialProgressCommittedWitness ==
    \E j \in Jobs :
        /\ resolution_jobs[j].status = "failed"
        /\ resolution_jobs[j].exc_info = <<"EmbeddingError">>
        /\ CreatedBy(entities, j) # {}
        /\ \E r \in entity_map : WrittenBy(r) = j

\* the committed queued jobs that no transaction has locked
FreeQueued == {k \in Jobs : resolution_jobs[k].status = "queued" /\ ~Locked(k)}

\* the committed queued jobs whose row another worker than w has locked
LockedQueued(w) ==
    {k \in Jobs : /\ resolution_jobs[k].status = "queued"
                  /\ \E v \in Workers \ {w} : Holds(v, k)}

\* C32: no waiting on a locked job.  A polling worker can always take its
\* step, whatever rows other workers have locked; when the oldest queued job
\* is locked by another worker it is returned the oldest unlocked queued
\* job, newer than the locked one, and when no unlocked queued job exists it
\* is returned none at once and goes to sleep without a transaction.
NoWaitOnLockedJob ==
    /\ [](\A w \in Workers : pc[w] = "poll" => ENABLED (FetchJob(w) \/ FetchNone(w)))
    /\ [][\A w \in Workers : (pc[w] = "poll" /\ pc'[w] # "poll") =>
            IF FreeQueued # {}
            THEN /\ pc'[w] = "process_job"
                 /\ local'[w].job \in FreeQueued
                 /\ \A k \in FreeQueued :
                       resolution_jobs[local'[w].job].created_at
                           <= resolution_jobs[k].created_at
                 /\ \A k \in LockedQueued(w) : ~Holds(w, k)'
            ELSE /\ pc'[w] = "sleep"
                 /\ tx'[w] = NoTx
                 /\ UNCHANGED <<resolution_jobs, tx>>]_vars

\* a worker has just been returned the newer job while the older one is
\* still committed queued and locked by the other worker
NoWaitOnLockedJobWitness ==
    \E w \in Workers : \E j, k \in Jobs :
        /\ pc[w] = "process_job" /\ local[w].job = j /\ Holds(w, j)
        /\ k \in LockedQueued(w)
        /\ resolution_jobs[k].created_at < resolution_jobs[j].created_at
        /\ resolution_jobs[j].status = "queued"

\* a polling worker while the only queued job is locked by the other worker
NoWaitOnLockedJobIdle ==
    \E w \in Workers : pc[w] = "poll" /\ FreeQueued = {} /\ LockedQueued(w) # {}

\* the mapping row r points to an entity of E of the type of the job that
\* wrote r
PointsInto(r, E) ==
    \E e \in E : /\ e.id = r.entity_id
                 /\ e.entity_type = resolution_jobs[WrittenBy(r)].entity_type

\* C33: referential integrity of mappings.  Every mapping row a job wrote
\* points to an entity that exists in the same committed state and has the
\* job's entity_type, whether the entity was loaded as a candidate or
\* created by the job; inside the job's open transaction the row points to
\* an entity the transaction can see.
MappingPointsToEntity ==
    /\ \A r \in entity_map : PointsInto(r, entities)
    /\ \A w \in Workers : \A r \in tx[w].entity_map : PointsInto(r, VisibleEntities(w))

\* committed rows of both kinds: one points to an entity its job created,
\* one to an entity that was registered before the job ran
MappingPointsToEntityWitness ==
    /\ \E r \in entity_map : r.entity_id \in {e.id : e \in CreatedBy(entities, WrittenBy(r))}
    /\ \E r \in entity_map : r.entity_id \in {e.id : e \in SeedEntities}

\* jobs j and k differ in nothing but the order of their records
SameBatchReordered(j, k) ==
    LET a == resolution_jobs[j]
        b == resolution_jobs[k]
    IN  /\ a.dataset_id = b.dataset_id /\ a.entity_type = b.entity_type
        /\ Parsable(j) /\ Parsable(k)
        /\ a.config_json.is_str = b.config_json.is_str
        /\ {"records"} \subseteq DOMAIN Config(j) \cap DOMAIN Config(k)
        /\ [Config(j) EXCEPT !.records = << >>] = [Config(k) EXCEPT !.records = << >>]
        /\ Len(records(Config(j))) = Len(records(Config(k)))
        /\ records(Config(j)) # records(Config(k))
        /\ \E f \in [DOMAIN records(Config(j)) -> DOMAIN records(Config(k))] :
              /\ \A m, n \in DOMAIN f : f[m] = f[n] => m = n
              /\ \A m \in DOMAIN f : records(Config(j))[m] = records(Config(k))[f[m]]

\* what the run of job j in the transaction of w made of its record i: the
\* method, and the entity when it is one the job did not create itself
OutcomeOf(w, j, i) ==
    LET rows == {r \in tx[w].entity_map : r.id = <<j, i>>}
    IN  IF rows = {} THEN <<"none", None>>
        ELSE LET r == CHOOSE x \in rows : TRUE
             IN  <<r.method, IF r.method = "created" THEN None ELSE r.entity_id>>

\* C34: order independence.  Two runs of jobs that differ only in the order
\* of their records and started from the same committed state (nothing has
\* been committed since either began) give every record the same outcome:
\* the same method, and the same entity when the record is matched to one.
OrderIndependence ==
    \A w1, w2 \in Workers :
        LET j == local[w1].job
            k == local[w2].job
        IN  (/\ w1 # w2
             /\ pc[w1] = "commit" /\ pc[w2] = "commit"
             /\ Holds(w1, j) /\ tx[w1].resolution_jobs[j].status = "completed"
             /\ Holds(w2, k) /\ tx[w2].resolution_jobs[k].status = "completed"
             /\ entities = SeedEntities /\ entity_map = {}
             /\ SameBatchReordered(j, k))
            => \A m \in DOMAIN records(Config(j)) : \A n \in DOMAIN records(Config(k)) :
                  records(Config(j))[m] = records(Config(k))[n]
                      => OutcomeOf(w1, j, m) = OutcomeOf(w2, k, n)

\* C35: the configured threshold is honoured.  The acceptance threshold a
\* run compares similarities with is the job's configured threshold whenever
\* config_json has the option, the value 0 included, and 0.85 only when the
\* option is absent: at every record of the loop the semantic step decides
\* as it would with the configured threshold.
ConfiguredThresholdHonoured ==
    \A w \in Workers : AtRecord(w) =>
        LET config == Config(local[w].job)
            rec == records(config)[local[w].i]
            text == _build_text(rec.keys, semantic_fields(config))
        IN  /\ threshold(config) = JobThreshold(config)
            /\ semantic_match(text, local[w].entities, threshold(config))
                  = semantic_match(text, local[w].entities, JobThreshold(config))

\* the consumer has just left the connection scope of message o
LeftScope(o) ==
    /\ consumer.pc = "scope_exit" /\ consumer.msg = o
    /\ consumer'.pc # "scope_exit" /\ consumer'.restarts = consumer.restarts

\* C36: embeddings worker failure status.  When run_embeddings_extract
\* raises, the job_status row of the job is left, once the connection scope
\* has ended, with status FAILED and exc_info the error text; when it
\* succeeds the row is FINISHED and is committed together with the
\* embeddings and the provenance event of the job.
FailureStatusRecorded ==
    [][\A o \in DOMAIN consumer.topic : LeftScope(o) =>
          IF consumer.e # ""
          THEN /\ consumer'.job_status[o].status = "FAILED"
               /\ consumer'.job_status[o].exc_info = <<consumer.e>>
          ELSE /\ consumer'.job_status[o].status = "FINISHED"
               /\ o \in consumer.tx.embeddings_1024 \cap consumer.tx.provenance_event
               /\ o \in consumer'.embeddings_1024 \cap consumer'.provenance_event]_vars

\* the committed offset is past no message whose processing failed
NoFailedMessageBehind ==
    \A o \in DOMAIN consumer.topic :
        <<"not committing offset", o>> \in consumer.log => consumer.committed <= o

\* C37: embeddings consumer offsets.  The offset of a message is committed
\* only after process_job returned for it without error, and the committed
\* offset of the partition never advances past a message whose processing
\* failed, so that the failed message is delivered again after a restart.
OffsetsFollowSuccess ==
    /\ [][consumer'.committed # consumer.committed =>
            /\ consumer.pc = "commit_offset" /\ consumer.e = ""
            /\ consumer'.committed = consumer.msg + 1
            /\ consumer.topic[consumer.msg] \in {"extract", "other_function"}]_vars
    /\ []NoFailedMessageBehind

\* the idle sleep after k idle cycles in a row: idle_sleep, doubled k times
\* and held at max_idle_sleep from the first doubling on
RECURSIVE Backoff(_, _, _)
Backoff(idle_sleep, max_idle_sleep, k) ==
    IF k = 0 THEN idle_sleep
    ELSE LET doubled == 2 * Backoff(idle_sleep, max_idle_sleep, k - 1)
         IN  IF doubled > max_idle_sleep THEN max_idle_sleep ELSE doubled

\* C38: idle backoff of the astro worker.  The idle sleep of run_forever
\* starts at idle_sleep, doubles after every idle cycle in a row, never
\* exceeds max_idle_sleep once it has been doubled, and is reset to
\* idle_sleep by any cycle that wrote a row; the loop never sleeps after a
\* cycle that wrote rows.
IdleBackoff ==
    /\ [](astro_loop.pc # "off" =>
            LET a == astro_loop
            IN  /\ a.sleep_seconds = Backoff(a.idle_sleep, a.max_idle_sleep, Len(a.slept))
                /\ \A n \in 1..Len(a.slept) :
                      a.slept[n] = Backoff(a.idle_sleep, a.max_idle_sleep, n - 1)
                /\ Len(a.slept) > 0 => a.sleep_seconds <= a.max_idle_sleep
                /\ a.pc = "sleep" => a.wrote = 0)
    /\ [][(astro_loop.pc = "run" /\ astro_loop' # astro_loop /\ astro_loop'.wrote > 0)
            => /\ astro_loop'.pc = "run"
               /\ astro_loop'.sleep_seconds = astro_loop.idle_sleep
               /\ astro_loop'.slept = << >>]_vars

\* after several idle cycles the doubled sleep was cut down to max_idle_sleep
IdleBackoffWitness ==
    /\ astro_loop.pc = "run"
    /\ Len(astro_loop.slept) >= 3
    /\ astro_loop.idle_sleep < astro_loop.max_idle_sleep
    /\ astro_loop.sleep_seconds = astro_loop.max_idle_sleep
    /\ 2 * astro_loop.slept[Len(astro_loop.slept)] > astro_loop.max_idle_sleep

\* a cycle that wrote rows has reset a sleep that had grown
IdleBackoffReset ==
    /\ astro_loop.pc = "run" /\ astro_loop.wrote > 0
    /\ astro_loop.slept = << >>
    /\ astro_loop.sleep_seconds = astro_loop.idle_sleep

\* the request answered last is a GET on /wake with a non-empty x-wake-key
\* equal to WAKE_KEY
Authorized(s) ==
    LET req == Requests[s.req]
        key == get_header_value(req, <<"x", "-", "w", "a", "k", "e", "-", "k", "e", "y">>)
    IN  /\ req # << >>
        /\ parse_request_line(req)[1] = <<"G", "E", "T">>
        /\ parse_query(parse_request_line(req)[2]) = <<"/", "w", "a", "k", "e">>
        /\ key # << >> /\ key = s.WAKE_KEY

\* the step handles a request
Served == wake_server'.now = wake_server.now /\ wake_server.raised # "off"

\* packets are sent by authorized requests only, one per request, and any
\* two of them are COOLDOWN_SECONDS apart or more
PacketsGated ==
    /\ [][Served =>
            /\ wake_server'.packets # wake_server.packets
                  => /\ wake_server'.packets = Append(wake_server.packets, wake_server.now)
                     /\ wake_server'.last_wake_ts = wake_server.now
                     /\ wake_server'.sent
                     /\ Authorized(wake_server')
            /\ wake_server'.packets = wake_server.packets
                  => /\ wake_server'.last_wake_ts = wake_server.last_wake_ts
                     /\ ~wake_server'.sent]_vars
    /\ [](\A m, n \in DOMAIN wake_server.packets :
            m < n => wake_server.packets[n] - wake_server.packets[m] >= COOLDOWN_SECONDS)

Refusals == {400, 401, 403, 404, 405, 429, 500}

\* C39 as stated: wake agent gating.  A wake packet is sent only in
\* response to a GET on /wake with a non-empty x-wake-key equal to WAKE_KEY,
\* any two packets are at least COOLDOWN_SECONDS apart, and a request
\* answered 400, 401, 403, 404, 405, 429 or 500 sends no packet and leaves
\* the last-wake timestamp unchanged.
WakeGating ==
    /\ PacketsGated
    /\ [][(Served /\ wake_server'.status \in Refusals) =>
            /\ wake_server'.packets = wake_server.packets
            /\ wake_server'.last_wake_ts = wake_server.last_wake_ts]_vars

\* C39 amended: wake agent gating.  A wake packet is sent only in response
\* to a GET on /wake with a non-empty x-wake-key equal to WAKE_KEY, and any
\* two packets are at least COOLDOWN_SECONDS apart.  A request answered 400,
\* 401, 403, 404, 405 or 429 sends no packet and leaves the last-wake
\* timestamp unchanged, and so does one answered 500, except when the 500
\* stands for a 200 that could not be written: then the packet has been
\* sent and the timestamp is the time of the request.
WakeGatingExceptLostReply ==
    /\ PacketsGated
    /\ [][(Served /\ wake_server'.status \in Refusals) =>
            IF wake_server'.sent
            THEN /\ wake_server'.status = 500
                 /\ wake_server'.raised = "http_response"
                 /\ Authorized(wake_server')
                 /\ wake_server.mac_bytes # None
                 /\ wake_server.now - wake_server.last_wake_ts >= COOLDOWN_SECONDS
                 /\ wake_server'.last_wake_ts = wake_server.now
            ELSE /\ wake_server'.packets = wake_server.packets
                 /\ wake_server'.last_wake_ts = wake_server.last_wake_ts]_vars

\* a second packet has gone out, and its request was answered 500 because
\* the 200 could not be written
WakeGatingExceptLostReplyWitness ==
    /\ Len(wake_server.packets) = 2
    /\ wake_server.sent /\ wake_server.status = 500
    /\ wake_server.last_wake_ts = wake_server.now

====
